---- MODULE Spec2Model ----
(***************************************************************************)
(* PlexCore (src/cogs/plex_core.py): the Plex/Jellyfin status reader, the  *)
(* library stats cache, the presence updater and the dashboard updater.    *)
(*                                                                         *)
(* Optional numbers (timestamps, message ids) use None == 0: clock values  *)
(* and Discord message ids are always > 0, as in the program, where the    *)
(* code tests them with "if x" / "if not x".                               *)
(* Strings the program builds are modelled as sequences of one-character   *)
(* strings or of tokens, so that formatting is computed, not assumed.      *)
(***************************************************************************)
EXTENDS Integers, Sequences, FiniteSets, TLC

\* ------------------------------------------------------------------ bounds
MaxTime == 3          \* the clock runs 1..MaxTime
MaxSessions == 2      \* at most this many session records per query
MaxMsgs == 3          \* at most this many dashboard messages are ever sent
MaxMinutes == 6060    \* calculate_uptime is applied to 0..MaxMinutes whole minutes

\* Python's None for Optional[float] / Optional[datetime] / Optional[int]
None == 0

\* --------------------------------------------------------------- variables
VARIABLES
    now,                  \* the wall clock (datetime.now / utcnow / time.time)
    config,               \* self.config (+ jellyfin_enabled), fixed at construction
    plex,                 \* self.plex: TRUE = a PlexServer handle, FALSE = None
    plex_start_time,      \* self.plex_start_time
    offline_since,        \* self.offline_since
    library_cache,        \* self.library_cache (ordered dict as a sequence)
    last_library_update,  \* self.last_library_update
    dashboard_message_id, \* self.dashboard_message_id
    file,                 \* the message-id file (dashboard_message_id.json)
    channel,              \* the ids of the messages that exist in the channel
    nextMsgId,            \* the id Discord gives the next message sent
    info,                 \* the snapshot the last observed get_server_info call returned
    call,                 \* that call's (or a direct get_library_stats call's) record
    ptask,                \* the update_status task: where it is suspended, its locals
    presence,             \* the bot's presence, with the inputs it was chosen from
    dtask,                \* the update_dashboard task: where it is suspended, its locals
    arg,                  \* the input of the function under study (function specifications)
    res                   \* its result

vars == <<now, config, plex, plex_start_time, offline_since, library_cache,
          last_library_update, dashboard_message_id, file, channel, nextMsgId,
          info, call, ptask, presence, dtask, arg, res>>

\* ------------------------------------------------------------ small helpers
Min(a, b) == IF a < b THEN a ELSE b

Range(s) == {s[i] : i \in 1..Len(s)}

\* ------------------------------------------------------------ configuration
\* One entry of config["plex_sections"]["sections"] (a dict, in file order).
SectionCfg(t, d, e, ep) ==
    [title |-> t, display_name |-> d, emoji |-> e, show_episodes |-> ep]

\* One entry of config["presence"]["sections"] (a list).
PresenceCfg(t, d, e) == [section_title |-> t, display_name |-> d, emoji |-> e]

\* The built-in defaults of _load_config: show_all, nothing configured.
default_config ==
    [show_all |-> TRUE, sections |-> <<>>, presence_sections |-> <<>>,
     jellyfin_enabled |-> FALSE]

\* The configurations the model is run with: the defaults, and user files
\* that configure sections and presence entries (one names a library the
\* server does not have), with and without the Jellyfin integration.
Configs ==
    { default_config,
      [show_all |-> FALSE,
       sections |-> << SectionCfg("Shows", "Series", "tv", TRUE),
                       SectionCfg("Movies", "Films", "film", FALSE) >>,
       presence_sections |-> << PresenceCfg("Movies", "Films", "film"),
                                PresenceCfg("Music", "Songs", "note"),
                                PresenceCfg("Shows", "Series", "tv") >>,
       jellyfin_enabled |-> TRUE],
      [show_all |-> TRUE,
       sections |-> << SectionCfg("Movies", "Films", "film", FALSE) >>,
       presence_sections |-> << PresenceCfg("Music", "Songs", "note") >>,
       jellyfin_enabled |-> TRUE] }

\* self.library_update_interval, from config["cache"] (in clock ticks).
library_update_interval == 1

\* ------------------------------------------------- the media server's answers
\* plex.library.sections(): each section with len(section.all()) and the sum
\* of its items' leafCount.
Section(t, c, l) == [title |-> t, count |-> c, leaf |-> l]

ServerLibraries ==
    { << Section("Movies", 1234, 0), Section("Shows", 2, 7) >>,
      << Section("Shows", 3, 9), Section("Kids", 1, 0) >> }

LibA == << Section("Movies", 1234, 0), Section("Shows", 2, 7) >>

\* The outcome of one library query: it succeeds, or it raises after failAt
\* entries of the stats map have been built (0: sections() itself raises).
LibOutcomes ==
    [ok : {TRUE}, srv : ServerLibraries, failAt : {0}]
    \cup [ok : {FALSE}, srv : {LibA}, failAt : 0..1]

\* ------------------------------------------------------- connect_to_plex
\* Returns the handle (TRUE/FALSE for a PlexServer/None) and the new
\* plex_start_time.
connect_to_plex(start, t, ok) ==
    IF ok
    THEN [handle |-> TRUE, start |-> IF start = None THEN t ELSE start]
    ELSE [handle |-> FALSE, start |-> None]

\* ------------------------------------------------------- get_library_stats
SectionTitles(srv) == {srv[i].title : i \in 1..Len(srv)}

SectionOf(srv, t) == CHOOSE s \in Range(srv) : s.title = t

_build_section_stats(section, c) ==
    [title |-> section.title,
     count |-> section.count,
     episodes |-> IF c.show_episodes THEN section.leaf ELSE 0,
     display_name |-> c.display_name,
     emoji |-> c.emoji,
     show_episodes |-> c.show_episodes]

DefaultStats(section) ==
    [title |-> section.title, count |-> section.count, episodes |-> 0,
     display_name |-> section.title, emoji |-> "clapper",
     show_episodes |-> FALSE]

RECURSIVE ConfiguredStats(_, _)
\* the loop over configured_sections, in configuration order
ConfiguredStats(srv, secs) ==
    IF secs = <<>> THEN <<>>
    ELSE (IF Head(secs).title \in SectionTitles(srv)
          THEN << _build_section_stats(SectionOf(srv, Head(secs).title), Head(secs)) >>
          ELSE <<>>)
         \o ConfiguredStats(srv, Tail(secs))

RECURSIVE UnconfiguredStats(_, _)
\* the loop over sections.items() for the titles not configured (show_all)
UnconfiguredStats(srv, configured) ==
    IF srv = <<>> THEN <<>>
    ELSE (IF Head(srv).title \notin configured
          THEN << DefaultStats(Head(srv)) >>
          ELSE <<>>)
         \o UnconfiguredStats(Tail(srv), configured)

\* The stats map a query that runs to its end builds.
BuildStats(srv, cfg) ==
    ConfiguredStats(srv, cfg.sections)
    \o (IF cfg.show_all
        THEN UnconfiguredStats(srv, {cfg.sections[i].title : i \in 1..Len(cfg.sections)})
        ELSE <<>>)

\* The local "stats" at the moment the query raises.
PartialStats(out, cfg) ==
    LET full == BuildStats(out.srv, cfg)
    IN  SubSeq(full, 1, Min(out.failAt, Len(full)))

\* A variant of the freshness test that calls the cache stale as soon as the
\* interval has elapsed (< where the code has <=).
CacheFreshStrict(last, t) == last # None /\ t - last < library_update_interval

\* The cache is fresh: a refresh happened and is at most the interval old.
CacheFresh(last, t) == last # None /\ t - last <= library_update_interval

\* A variant of the except branch that stores the stats built so far.
RefreshFailedLeak(st, out) == [st EXCEPT !.library_cache = PartialStats(out, config)]

\* What the except branch leaves in the object: the cache and clock as they were.
RefreshFailed(st, out) == st

\* What a successful query leaves in the object.
RefreshDone(st, t, stats) ==
    [st EXCEPT !.library_cache = stats, !.last_library_update = t]

\* get_library_stats on the object state st = [plex, plex_start_time,
\* library_cache, last_library_update] at time t; connOk is the outcome of
\* the reconnect (used only when there is no handle), out the outcome of the
\* library query. Returns the new object state, the returned map, and a
\* record of the call.
get_library_stats(st, t, connOk, out) ==
    LET c   == connect_to_plex(st.plex_start_time, t, connOk)
        st1 == IF st.plex THEN st
               ELSE [st EXCEPT !.plex = c.handle, !.plex_start_time = c.start]
        fresh == BuildStats(out.srv, config)
        st2 == IF CacheFresh(st.last_library_update, t) THEN st
               ELSE IF ~st1.plex THEN st1
               ELSE IF out.ok THEN RefreshDone(st1, t, fresh)
               ELSE RefreshFailed(st1, out)
    IN  [st  |-> st2,
         ret |-> st2.library_cache,
         call |-> [t |-> t,
                   cache0 |-> st.library_cache,
                   last0 |-> st.last_library_update,
                   reachable |-> (st.plex \/ connOk),
                   queried |-> (~CacheFresh(st.last_library_update, t) /\ st1.plex),
                   queryOk |-> out.ok,
                   partial |-> PartialStats(out, config),
                   fresh |-> fresh,
                   cache1 |-> st2.library_cache,
                   last1 |-> st2.last_library_update,
                   ret |-> st2.library_cache]]

\* ------------------------------------------------------------------ strings
\* A string is a sequence of fragments (TLA+ strings); the text is their
\* concatenation. Numbers are rendered digit by digit.
DigitChars == <<"0", "1", "2", "3", "4", "5", "6", "7", "8", "9">>

RECURSIVE Digits(_)
\* str(n) for n >= 0
Digits(n) == IF n < 10 THEN <<DigitChars[n + 1]>>
             ELSE Digits(n \div 10) \o <<DigitChars[(n % 10) + 1]>>

\* f"{n:02d}" for n >= 0
Pad2(n) == IF n < 10 THEN <<"0">> \o Digits(n) ELSE Digits(n)

\* the number a string of digits denotes, -1 if it is not all digits
DigitValue(c) ==
    IF \E d \in 1..10 : DigitChars[d] = c
    THEN (CHOOSE d \in 1..10 : DigitChars[d] = c) - 1
    ELSE -1

RECURSIVE ParseNat(_)
ParseNat(s) ==
    IF s = <<>> THEN -1
    ELSE IF Len(s) = 1 THEN DigitValue(s[1])
    ELSE IF ParseNat(SubSeq(s, 1, Len(s) - 1)) < 0 \/ DigitValue(s[Len(s)]) < 0 THEN -1
    ELSE 10 * ParseNat(SubSeq(s, 1, Len(s) - 1)) + DigitValue(s[Len(s)])

\* --------------------------------------------------------- calculate_uptime
\* A variant that saturates one hour early (hours >= 99).
calculate_uptime_early(t, start) ==
    IF start = None THEN <<"Offline">>
    ELSE IF ((t - start) \div 60) \div 60 >= 99 THEN <<"99+ Hours">>
    ELSE Pad2(((t - start) \div 60) \div 60) \o <<":">>
         \o Pad2(((t - start) \div 60) % 60)

\* t and start are in seconds; int((t - start) / 60) whole minutes.
calculate_uptime(t, start) ==
    IF start = None THEN <<"Offline">>
    ELSE LET total_minutes == (t - start) \div 60
             hours   == total_minutes \div 60
             minutes == total_minutes % 60
         IN  IF hours > 99 THEN <<"99+ Hours">>
             ELSE Pad2(hours) \o <<":">> \o Pad2(minutes)

\* ---------------------------------------------------------- session records
\* A Plex session object: "has" are the attributes it carries (hasattr),
\* "null" those among them whose value is None. players, media and
\* transcodeSession are taken as well-formed; the fields below are the ones
\* whose absence decides between the block and the placeholder.
PlexRecord(has, null, users, section, type, title, series, season, episode, year, offset, dur) ==
    [has |-> has, null |-> null, usernames |-> users,
     librarySectionTitle |-> section, type |-> type, title |-> title,
     grandparentTitle |-> series, parentIndex |-> season, index |-> episode,
     year |-> year, viewOffset |-> offset, duration |-> dur]

MovieAttrs == {"usernames", "librarySectionTitle", "type", "title", "year",
               "viewOffset", "duration"}
EpisodeAttrs == MovieAttrs \cup {"grandparentTitle", "parentIndex", "index"}

\* self.user_mapping (user_mapping.json): raw account name -> alias
user_mapping(u) == IF u = "alice" THEN "Al" ELSE u

\* s.split(c)[0]: the text before the first c (character sequences)
RECURSIVE SplitFirst(_, _)
SplitFirst(s, c) ==
    IF s = <<>> \/ Head(s) = c THEN <<>>
    ELSE <<Head(s)>> \o SplitFirst(Tail(s), c)

\* s.strip() for blanks
RECURSIVE Strip(_)
Strip(s) ==
    IF s = <<>> THEN s
    ELSE IF Head(s) = " " THEN Strip(Tail(s))
    ELSE IF s[Len(s)] = " " THEN Strip(SubSeq(s, 1, Len(s) - 1))
    ELSE s

\* _get_formatted_title: [raised, text]
_get_formatted_title(session) ==
    IF "type" \in session.has /\ session.type = "track"
    THEN [raised |-> FALSE,
          text |-> (IF "grandparentTitle" \notin session.has THEN <<"Unknown Artist">>
                    ELSE IF "grandparentTitle" \in session.null THEN <<"None">>
                    ELSE session.grandparentTitle)
                   \o <<" - ">>
                   \o (IF "title" \notin session.has THEN <<"Unknown Track">>
                       ELSE IF "title" \in session.null THEN <<"None">>
                       ELSE <<session.title>>)]
    ELSE IF "grandparentTitle" \in session.has
    THEN IF "grandparentTitle" \in session.null
            \/ ({"parentIndex", "index"} \subseteq session.has
                /\ {"parentIndex", "index"} \cap session.null # {})
         THEN [raised |-> TRUE, text |-> <<>>]
         ELSE [raised |-> FALSE,
               text |-> Strip(SplitFirst(SplitFirst(session.grandparentTitle, ":"), "-"))
                        \o <<" - ">>
                        \o (IF {"parentIndex", "index"} \subseteq session.has
                            THEN <<"S">> \o Pad2(session.parentIndex)
                                 \o <<"E">> \o Pad2(session.index)
                            ELSE <<>>)]
    ELSE IF "title" \notin session.has
    THEN [raised |-> TRUE, text |-> <<>>]
    ELSE [raised |-> FALSE,
          text |-> (IF "title" \in session.null THEN <<"None">> ELSE <<session.title>>)
                   \o (IF "year" \in session.has /\ "year" \notin session.null
                          /\ session.year # 0
                       THEN <<" (">> \o Digits(session.year) \o <<")">>
                       ELSE <<>>)]

\* stats.get(title, {}).get("emoji") on the ordered map
StatsTitles(stats) == {stats[i].title : i \in 1..Len(stats)}

StatsOf(stats, t) == CHOOSE e \in Range(stats) : e.title = t

\* The format_stream_info statements that run before get_library_stats is
\* called raise (session.usernames missing).
RaisesBeforeStats(session) == "usernames" \notin session.has

\* The statements after the title raise: viewOffset / duration with a None
\* offset, session.viewOffset or session.duration missing, or _format_time
\* on a str(timedelta) of a day or more ("1 day, 0:00:00") for content of
\* an hour or more.
RaisesAfterTitle(session) ==
    \/ "viewOffset" \notin session.has
    \/ "duration" \notin session.has
    \/ /\ "duration" \notin session.null
       /\ session.duration # 0
       /\ "viewOffset" \in session.null
    \/ /\ "duration" \notin session.null
       /\ session.duration \div 1000 >= 3600
       /\ \/ session.duration >= 86400000
          \/ "viewOffset" \notin session.null /\ session.viewOffset >= 86400000

\* A variant of the placeholder that numbers the records from 0.
PlaceholderZeroBased(idx) ==
    [kind |-> "placeholder", source |-> "plex", idx |-> idx - 1]

\* f"... Stream could not be loaded (# {idx})"
Placeholder(idx) == [kind |-> "placeholder", source |-> "plex", idx |-> idx]

\* format_stream_info with the map get_library_stats returned; the block's
\* header line is built, the progress and footer lines are not spelled out.
format_stream_info(session, idx, stats) ==
    IF RaisesBeforeStats(session) \/ _get_formatted_title(session).raised
       \/ RaisesAfterTitle(session)
    THEN Placeholder(idx)
    ELSE LET user == IF "usernames" \notin session.null /\ session.usernames # <<>>
                     THEN session.usernames[1]
                     ELSE "Unbekannt"
             section_title == IF "librarySectionTitle" \in session.has
                              THEN session.librarySectionTitle ELSE "Unknown"
             type == IF "type" \in session.has /\ "type" \notin session.null
                     THEN session.type ELSE ""
             content_emoji ==
                 IF section_title \in StatsTitles(stats)
                 THEN StatsOf(stats, section_title).emoji
                 ELSE IF type = "track" THEN "note"
                 ELSE IF type = "movie" \/ "type" \in session.null THEN "camera"
                 ELSE "tv"
         IN  [kind |-> "block", source |-> "plex",
              header |-> <<content_emoji, " ">> \o _get_formatted_title(session).text
                         \o <<" | ", user_mapping(user)>>]

\* --------------------------------------------------------- get_active_streams
\* The outcome of plex.sessions(): it raises, or returns a list of records.
RECURSIVE FormatFrom(_, _, _, _, _)
\* The list comprehension over enumerate(sessions, start=1), from index idx
\* on: each format_stream_info call that gets that far calls
\* get_library_stats (outs[idx] is the outcome of its query, if it makes one).
\* Returns the object state, the formatted entries and the calls made.
FormatFrom(st, t, sessions, idx, outs) ==
    IF idx > Len(sessions) THEN [st |-> st, list |-> <<>>, calls |-> <<>>]
    ELSE LET session == sessions[idx]
             g    == get_library_stats(st, t, TRUE, outs[idx])
             st1  == IF RaisesBeforeStats(session) THEN st ELSE g.st
             used == IF RaisesBeforeStats(session) THEN st.library_cache ELSE g.ret
             rest == FormatFrom(st1, t, sessions, idx + 1, outs)
         IN  [st |-> rest.st,
              list |-> <<format_stream_info(session, idx, used)>> \o rest.list,
              calls |-> (IF RaisesBeforeStats(session) THEN <<>> ELSE <<g.call>>)
                        \o rest.calls]

get_active_streams(st, t, sessions, outs) ==
    IF ~st.plex THEN [st |-> st, list |-> <<>>, calls |-> <<>>]
    ELSE FormatFrom(st, t, sessions, 1, outs)

\* ----------------------------------------------------------- get_offline_info
RECURSIVE OfflineStats(_)
OfflineStats(secs) ==
    IF secs = <<>> THEN <<>>
    ELSE << [title |-> Head(secs).title, count |-> 0, episodes |-> 0,
             display_name |-> Head(secs).display_name,
             emoji |-> Head(secs).emoji,
             show_episodes |-> Head(secs).show_episodes] >>
         \o OfflineStats(Tail(secs))

\* Returns the new offline_since and the snapshot.
get_offline_info(since, t) ==
    LET since1 == IF since = None THEN t ELSE since
    IN  [offline_since |-> since1,
         info |-> [status |-> "offline",
                   uptime |-> <<>>,
                   offline_since |-> since1,
                   library_stats |-> OfflineStats(config.sections),
                   active_users |-> <<>>,
                   current_streams |-> <<>>]]

\* ------------------------------------------------------------ get_server_info
\* What the try block does to offline_since before the queries are made.
SeenOnline(since) == None

\* A variant that looks at the first plex.sessions() call only.
FirstQuerySucceeded(sess, sess2ok) == sess.ok

\* The try block returns the online snapshot: neither plex.sessions() call
\* raised (a failed library query is caught inside get_library_stats).
QueriesSucceeded(sess, sess2ok) == sess.ok /\ sess2ok

\* st = [plex, plex_start_time, library_cache, last_library_update,
\* offline_since]; connOk: the connect succeeds; outs: the outcomes of the
\* library queries (outs[1] for "library_stats", outs[i + 1] for session i);
\* sess: the first plex.sessions() (ok, list); sess2ok: the second succeeds.
\* Returns the object state, the snapshot and the get_library_stats calls.
get_server_info(st, t, connOk, outs, sess, sess2ok) ==
    LET c == connect_to_plex(st.plex_start_time, t, connOk)
        st1 == [st EXCEPT !.plex = c.handle, !.plex_start_time = c.start]
    IN  IF ~c.handle
        THEN LET off == get_offline_info(st1.offline_since, t)
             IN  [st |-> [st1 EXCEPT !.offline_since = off.offline_since],
                  info |-> off.info, calls |-> <<>>]
        ELSE LET st2 == [st1 EXCEPT !.offline_since = SeenOnline(st1.offline_since)]
                 uptime == calculate_uptime(t, st2.plex_start_time)
                 g  == get_library_stats(st2, t, TRUE, outs[1])
                 a  == get_active_streams(g.st, t, sess.list, Tail(outs))
                 st3 == IF sess.ok THEN a.st ELSE g.st
                 calls == <<g.call>> \o (IF sess.ok THEN a.calls ELSE <<>>)
                 off == get_offline_info(st3.offline_since, t)
             IN  IF QueriesSucceeded(sess, sess2ok)
                 THEN [st |-> st3,
                       info |-> [status |-> "online",
                                 uptime |-> uptime,
                                 offline_since |-> None,
                                 library_stats |-> g.ret,
                                 active_users |-> a.list,
                                 current_streams |-> sess.list],
                       calls |-> calls]
                 ELSE [st |-> [st3 EXCEPT !.offline_since = off.offline_since],
                       info |-> off.info, calls |-> calls]

\* ----------------------------------------------------------------- Jellyfin
\* One active Jellyfin session (a JSON object whose NowPlayingItem is
\* non-empty): "has" are the keys present in the session, its NowPlayingItem
\* and its PlayState, "null" those among them whose value is null.
\* MediaStreams and TranscodingInfo are taken as well-formed. A tick count
\* (100 ns units) is kept as Ticks(sec, frac) = sec * 10,000,000 + frac.
Ticks(sec, frac) == [sec |-> sec, frac |-> frac]

JellyfinRecord(has, null, user, type, series, season, episode, name, year, pos, run) ==
    [has |-> has, null |-> null, UserName |-> user, Type |-> type,
     SeriesName |-> series, ParentIndexNumber |-> season,
     IndexNumber |-> episode, Name |-> name, ProductionYear |-> year,
     PositionTicks |-> pos, RunTimeTicks |-> run]

\* value of an int key with a default of 0
JfInt(session, key, value) == IF key \in session.has THEN value ELSE 0

\* _get_jellyfin_formatted_title: [raised, text]
_get_jellyfin_formatted_title(now_playing) ==
    IF "Type" \in now_playing.has /\ "Type" \notin now_playing.null
       /\ now_playing.Type = "Episode"
    THEN IF {"SeriesName", "ParentIndexNumber", "IndexNumber"} \cap now_playing.null # {}
         THEN [raised |-> TRUE, text |-> <<>>]
         ELSE [raised |-> FALSE,
               text |-> (IF "SeriesName" \in now_playing.has
                         THEN Strip(SplitFirst(SplitFirst(now_playing.SeriesName, ":"), "-"))
                         ELSE <<"Unknown Show">>)
                        \o <<" - ", "S">>
                        \o Pad2(JfInt(now_playing, "ParentIndexNumber", now_playing.ParentIndexNumber))
                        \o <<"E">>
                        \o Pad2(JfInt(now_playing, "IndexNumber", now_playing.IndexNumber))]
    ELSE LET title == IF "Name" \notin now_playing.has THEN <<"Unknown">>
                      ELSE IF "Name" \in now_playing.null THEN <<"None">>
                      ELSE <<now_playing.Name>>
         IN  [raised |-> FALSE,
              text |-> IF "ProductionYear" \in now_playing.has
                          /\ "ProductionYear" \notin now_playing.null
                          /\ now_playing.ProductionYear # 0
                       THEN title \o <<" (">> \o Digits(now_playing.ProductionYear) \o <<")">>
                       ELSE title]

\* The progress and time statements raise: a null PlayState, or arithmetic
\* on a null PositionTicks / RunTimeTicks.
JellyfinRaises(session) ==
    \/ "PlayState" \in session.null
    \/ "RunTimeTicks" \in session.null
    \/ "PositionTicks" \in session.null

JellyfinPlaceholder(idx) == [kind |-> "placeholder", source |-> "jellyfin", idx |-> idx]

format_jellyfin_stream_info(session, idx) ==
    IF JellyfinRaises(session) \/ _get_jellyfin_formatted_title(session).raised
    THEN JellyfinPlaceholder(idx)
    ELSE LET user == IF "UserName" \notin session.has THEN "Unknown"
                     ELSE IF "UserName" \in session.null THEN "None"
                     ELSE session.UserName
             content_emoji ==
                 IF "Type" \in session.has /\ "Type" \notin session.null
                    /\ session.Type = "Episode"
                 THEN "tv" ELSE "camera"
         IN  [kind |-> "block", source |-> "jellyfin",
              header |-> <<content_emoji, " ">>
                         \o _get_jellyfin_formatted_title(session).text
                         \o <<" | ", user_mapping(user)>>]

RECURSIVE JellyfinFrom(_, _)
\* the loop of get_jellyfin_streams over enumerate(sessions, start=1)
JellyfinFrom(sessions, idx) ==
    IF idx > Len(sessions) THEN <<>>
    ELSE <<format_jellyfin_stream_info(sessions[idx], idx)>>
         \o JellyfinFrom(sessions, idx + 1)

\* get_jellyfin_streams on what get_jellyfin_sessions returned: the active
\* sessions, or [] when the integration is off or the request failed.
get_jellyfin_streams(resp) ==
    IF ~config.jellyfin_enabled \/ ~resp.ok THEN <<>>
    ELSE JellyfinFrom(resp.list, 1)

\* ------------------------------------------------------------ update_status
\* config["presence"]["offline_text"] and ["stream_text"] (the defaults)
offline_text == <<"Server Offline!">>

\* stream_text.format(count=count, s=s)
stream_text(count, plural) ==
    Digits(count) \o <<" active Stream">> \o plural \o <<" ", "green">>

\* f"{n:03d}"
Pad3(n) == IF n < 10 THEN <<"0", "0">> \o Digits(n)
           ELSE IF n < 100 THEN <<"0">> \o Digits(n)
           ELSE Digits(n)

RECURSIVE FormatCount(_)
\* '{:,.0f}'.format(n).replace(',', '.')
FormatCount(n) ==
    IF n < 1000 THEN Digits(n)
    ELSE FormatCount(n \div 1000) \o <<".">> \o Pad3(n % 1000)

RECURSIVE presence_parts(_, _)
\* the list comprehension over presence_config["sections"]
presence_parts(secs, stats) ==
    IF secs = <<>> THEN <<>>
    ELSE (IF Head(secs).section_title \in StatsTitles(stats)
          THEN << FormatCount(StatsOf(stats, Head(secs).section_title).count)
                  \o <<" ", Head(secs).display_name, " ", Head(secs).emoji>> >>
          ELSE <<>>)
         \o presence_parts(Tail(secs), stats)

RECURSIVE Join(_, _)
\* sep.join(parts)
Join(parts, sep) ==
    IF parts = <<>> THEN <<>>
    ELSE IF Len(parts) = 1 THEN parts[1]
    ELSE parts[1] \o <<sep>> \o Join(Tail(parts), sep)

\* A variant of case (c) without the fixed text.
SummaryTextJoinOnly(parts) == Join(parts, " | ")

\* The text of case (c): the joined parts, or the fixed text when none.
SummaryText(parts) ==
    IF parts # <<>> THEN Join(parts, " | ")
    ELSE <<"No streams or sections configured">>

\* A variant of the if / elif / else that tests the stream count first.
ChoosePresenceStreamsFirst(snapshot, jellyfin_stream_count) ==
    IF Len(snapshot.active_users) + jellyfin_stream_count > 0
    THEN [text |-> stream_text(Len(snapshot.active_users) + jellyfin_stream_count,
                               IF Len(snapshot.active_users) + jellyfin_stream_count # 1
                               THEN <<"s">> ELSE <<>>),
          status |-> "online"]
    ELSE IF snapshot.status # "online"
    THEN [text |-> offline_text, status |-> "dnd"]
    ELSE [text |-> SummaryText(presence_parts(config.presence_sections,
                                              snapshot.library_stats)),
          status |-> "online"]

\* The if / elif / else of update_status: the activity text and the status.
ChoosePresence(snapshot, jellyfin_stream_count) ==
    LET active_streams == Len(snapshot.active_users) + jellyfin_stream_count
    IN  IF snapshot.status # "online"
        THEN [text |-> offline_text, status |-> "dnd"]
        ELSE IF active_streams > 0
        THEN [text |-> stream_text(active_streams,
                                   IF active_streams # 1 THEN <<"s">> ELSE <<>>),
              status |-> "online"]
        ELSE [text |-> SummaryText(presence_parts(config.presence_sections,
                                                  snapshot.library_stats)),
              status |-> "online"]

\* ------------------------------------------------------ message persistence
AbsentFile == [kind |-> "absent", id |-> None]

\* the file after a write that failed once the file was opened (truncated)
MalformedFile == [kind |-> "malformed", id |-> None]

IdFile(id) == [kind |-> "id", id |-> id]

\* A variant of _load_message_id that never finds an id.
LoadNothing(f) == None

\* _load_message_id when it returns: int(data.get("message_id")), or None
\* when the file is absent, not valid JSON or holds a non-numeric string
_load_message_id(f) ==
    IF f.kind = "id" THEN f.id
    ELSE IF f.kind = "numeric_text" THEN ParseNat(f.id)
    ELSE None

\* _save_message_id: the file after the call; an OSError is logged and
\* swallowed ("open_fails": nothing written, "write_fails": file truncated).
_save_message_id(f, message_id, outcome) ==
    IF outcome = "ok" THEN IdFile(message_id)
    ELSE IF outcome = "open_fails" THEN f
    ELSE MalformedFile

SaveOutcomes == {"ok", "open_fails", "write_fails"}

\* --------------------------------------------------------------- the object
NoInfo ==
    [status |-> "none", uptime |-> <<>>, offline_since |-> None,
     library_stats |-> <<>>, active_users |-> <<>>, current_streams |-> <<>>]

\* The bot's presence: the text and status last applied, with the inputs
\* update_status chose them from.
NoPresence ==
    [text |-> <<>>, status |-> "none", server |-> "none", plex_streams |-> 0,
     jellyfin_streams |-> 0, library_stats |-> <<>>]

\* The record of one observed call: the outcomes the environment gave it
\* and the get_library_stats calls it made.
NoCall == [op |-> "none", connOk |-> FALSE, sessOk |-> FALSE, sess2ok |-> FALSE,
           lib |-> <<>>]

IdleP == [pc |-> "idle", info |-> NoInfo]

\* The update_dashboard task: pc is where it is suspended; info and jellyfin
\* are its locals; the remaining fields describe its current (when idle: its
\* last) _update_dashboard_message call: the id, the file and the next
\* message id it started with, whether NotFound was raised, how it ended and
\* the id of the message it sent.
IdleD == [pc |-> "idle", info |-> NoInfo, jellyfin |-> 0, startId |-> None,
          file0 |-> [kind |-> "absent", id |-> None], next0 |-> 0,
          notFound |-> FALSE, result |-> "none", newId |-> None,
          save |-> "none"]

\* the fields get_server_info and get_library_stats read and write
Obj ==
    [plex |-> plex, plex_start_time |-> plex_start_time,
     library_cache |-> library_cache,
     last_library_update |-> last_library_update,
     offline_since |-> offline_since]

SetObj(st) ==
    /\ plex' = st.plex
    /\ plex_start_time' = st.plex_start_time
    /\ library_cache' = st.library_cache
    /\ last_library_update' = st.last_library_update
    /\ offline_since' = st.offline_since

\* __init__: the fields after construction
NewObj ==
    [plex |-> FALSE, plex_start_time |-> None, library_cache |-> <<>>,
     last_library_update |-> None, offline_since |-> None]

\* ------------------------------------------------------ the environment's answers
GoodMovie ==
    PlexRecord(MovieAttrs, {}, <<"alice">>, "Movies", "movie", "Up", <<>>, 0, 0,
               2009, 60000, 5400000)

\* a record without viewOffset: format_stream_info raises on it
BadMovie ==
    PlexRecord(MovieAttrs \ {"viewOffset"}, {}, <<"bob">>, "Movies", "movie",
               "Heat", <<>>, 0, 0, 1995, 0, 5400000)

JfAttrs == {"UserName", "Type", "Name", "ProductionYear", "PlayState",
            "PositionTicks", "RunTimeTicks"}

JfMovie ==
    JellyfinRecord(JfAttrs, {}, "carol", "Movie", <<>>, 0, 0, "Alien", 1979,
                   Ticks(60, 0), Ticks(7000, 0))

\* a record whose PositionTicks is null: format_jellyfin_stream_info raises
JfBad ==
    JellyfinRecord(JfAttrs, {"PositionTicks"}, "dave", "Movie", <<>>, 0, 0,
                   "Brazil", 1985, Ticks(0, 0), Ticks(7000, 0))

\* plex.sessions(): raises, or returns a list
SessionOutcomes ==
    { [ok |-> FALSE, list |-> <<>>],
      [ok |-> TRUE, list |-> <<>>],
      [ok |-> TRUE, list |-> <<GoodMovie>>],
      [ok |-> TRUE, list |-> <<BadMovie, GoodMovie>>] }

\* get_jellyfin_sessions(): [] on any failure, else the active sessions
JellyfinOutcomes ==
    { [ok |-> FALSE, list |-> <<>>],
      [ok |-> TRUE, list |-> <<JfMovie>>],
      [ok |-> TRUE, list |-> <<JfBad, JfMovie>>] }

\* The outcomes of the library queries of one get_server_info call: o1 for
\* the "library_stats" entry, o2 for each retry made while formatting (a
\* retry is made only after a failed query).
OutSeq(o1, o2) == [i \in 1..(MaxSessions + 1) |-> IF i = 1 THEN o1 ELSE o2]

RetryOutcomes(o1) ==
    IF o1.ok THEN {o1}
    ELSE {o \in LibOutcomes : o.srv = o1.srv /\ o.failAt = 0}

\* ------------------------------------------------------------------ actions
\* the clock advances
Tick ==
    /\ now < MaxTime
    /\ now' = now + 1
    /\ UNCHANGED <<config, plex, plex_start_time, offline_since, library_cache,
                   last_library_update, dashboard_message_id, file, channel,
                   nextMsgId, info, call, ptask, presence, dtask, arg, res>>

\* get_library_stats called on its own (it is a public method of the cog)
CallGetLibraryStats ==
    \E connOk \in BOOLEAN, out \in LibOutcomes :
        \E g \in {get_library_stats(Obj, now, connOk, out)} :
            /\ SetObj(g.st)
            /\ call' = [NoCall EXCEPT !.op = "get_library_stats",
                                      !.connOk = connOk, !.lib = <<g.call>>]
            /\ UNCHANGED <<now, config, dashboard_message_id, file, channel,
                           nextMsgId, info, ptask, presence, dtask, arg, res>>

\* The outcomes the environment can give one get_server_info call: the
\* connect fails; or it succeeds and the first sessions() raises; or both
\* succeed and the second sessions() raises or not.
AnyLibOutcome == CHOOSE o \in LibOutcomes : TRUE

FailedSessions == [ok |-> FALSE, list |-> <<>>]

ServerAnswers ==
    { [connOk |-> FALSE, o1 |-> AnyLibOutcome, o2 |-> AnyLibOutcome,
       sess |-> FailedSessions, sess2ok |-> FALSE] }
    \cup
    { [connOk |-> TRUE, o1 |-> o, o2 |-> o, sess |-> FailedSessions,
       sess2ok |-> FALSE] : o \in LibOutcomes }
    \cup
    UNION { [connOk : {TRUE}, o1 : {o}, o2 : RetryOutcomes(o),
             sess : SessionOutcomes \ {FailedSessions}, sess2ok : BOOLEAN] :
            o \in LibOutcomes }

\* get_server_info on the object with the answers a
ServerInfo(a) ==
    get_server_info(Obj, now, a.connOk, OutSeq(a.o1, a.o2), a.sess, a.sess2ok)

\* get_server_info as the two timers call it, observed: the snapshot and
\* the outcomes are recorded in info and call.
CallGetServerInfo ==
    \E a \in ServerAnswers :
        \E r \in {ServerInfo(a)} :
            /\ SetObj(r.st)
            /\ info' = r.info
            /\ call' = [op |-> "get_server_info", connOk |-> a.connOk,
                        sessOk |-> a.sess.ok, sess2ok |-> a.sess2ok,
                        lib |-> r.calls]
            /\ UNCHANGED <<now, config, dashboard_message_id, file, channel,
                           nextMsgId, ptask, presence, dtask, arg, res>>

\* A variant that renders the presence from the cache as it is when the
\* presence is set, not from the snapshot's map.
ApplyPresenceFromCache(snapshot, jellyfin_stream_count, ok) ==
    presence' = IF ok
                THEN [text |-> ChoosePresence([snapshot EXCEPT !.library_stats = library_cache],
                                              jellyfin_stream_count).text,
                      status |-> ChoosePresence(snapshot, jellyfin_stream_count).status,
                      server |-> snapshot.status,
                      plex_streams |-> Len(snapshot.active_users),
                      jellyfin_streams |-> jellyfin_stream_count,
                      library_stats |-> library_cache]
                ELSE presence

\* change_presence with the text update_status chose; when the call raises
\* the error is logged and the presence stays.
ApplyPresence(snapshot, jellyfin_stream_count, ok) ==
    presence' = IF ok
                THEN [text |-> ChoosePresence(snapshot, jellyfin_stream_count).text,
                      status |-> ChoosePresence(snapshot, jellyfin_stream_count).status,
                      server |-> snapshot.status,
                      plex_streams |-> Len(snapshot.active_users),
                      jellyfin_streams |-> jellyfin_stream_count,
                      library_stats |-> snapshot.library_stats]
                ELSE presence

\* update_status up to its first suspension: get_server_info, and when
\* Jellyfin is off the whole tick; answers are the outcomes the environment
\* can give the get_server_info call.
UpdateStatusStartOn(answers) ==
    /\ ptask.pc = "idle"
    /\ \E a \in answers :
         \E r \in {ServerInfo(a)} :
             /\ SetObj(r.st)
             /\ IF config.jellyfin_enabled
                THEN /\ ptask' = [pc |-> "jellyfin", info |-> r.info]
                     /\ UNCHANGED presence
                ELSE /\ ptask' = IdleP
                     /\ \E presOk \in BOOLEAN : ApplyPresence(r.info, 0, presOk)
    /\ UNCHANGED <<now, config, dashboard_message_id, file, channel, nextMsgId,
                   info, call, dtask, arg, res>>

UpdateStatusStart == UpdateStatusStartOn(ServerAnswers)

\* update_status resumed with the Jellyfin answer: the text is chosen and
\* change_presence called.
UpdateStatusResume ==
    /\ ptask.pc = "jellyfin"
    /\ \E resp \in JellyfinOutcomes, presOk \in BOOLEAN :
         ApplyPresence(ptask.info, Len(get_jellyfin_streams(resp)), presOk)
    /\ ptask' = IdleP
    /\ UNCHANGED <<now, config, plex, plex_start_time, offline_since,
                   library_cache, last_library_update, dashboard_message_id,
                   file, channel, nextMsgId, info, call, dtask, arg, res>>

\* ---------------------------------------------------------- update_dashboard
\* The end of update_dashboard's try block once the snapshot is complete:
\* the sibling modules' data and the embed (renderOk: none of it raises),
\* then _update_dashboard_message up to its first await.
BeginUpsert(snapshot, jellyfin_stream_count, renderOk) ==
    dtask' = IF ~renderOk
             THEN [IdleD EXCEPT !.result = "render_failed"]
             ELSE [pc |-> IF dashboard_message_id # None THEN "fetch" ELSE "send",
                   info |-> snapshot,
                   jellyfin |-> jellyfin_stream_count,
                   startId |-> dashboard_message_id,
                   file0 |-> file,
                   next0 |-> nextMsgId,
                   notFound |-> FALSE,
                   result |-> "none",
                   newId |-> None,
                   save |-> "none"]

\* update_dashboard up to its first suspension; nothing happens when the
\* channel cannot be resolved. answers are the outcomes the environment can
\* give the get_server_info call.
UpdateDashboardStartOn(answers) ==
    /\ dtask.pc = "idle"
    /\ \E channelOk \in BOOLEAN :
         IF ~channelOk
         THEN UNCHANGED <<plex, plex_start_time, offline_since, library_cache,
                          last_library_update, dtask>>
         ELSE \E a \in answers :
                \E r \in {ServerInfo(a)} :
                    /\ SetObj(r.st)
                    /\ IF config.jellyfin_enabled
                       THEN dtask' = [IdleD EXCEPT !.pc = "jellyfin", !.info = r.info]
                       ELSE \E renderOk \in BOOLEAN : BeginUpsert(r.info, 0, renderOk)
    /\ UNCHANGED <<now, config, dashboard_message_id, file, channel, nextMsgId,
                   info, call, ptask, presence, arg, res>>

UpdateDashboardStart == UpdateDashboardStartOn(ServerAnswers)

\* update_dashboard resumed with the Jellyfin answer: the streams are
\* appended to the snapshot's list and the message update begins.
UpdateDashboardResume ==
    /\ dtask.pc = "jellyfin"
    /\ \E resp \in JellyfinOutcomes, renderOk \in BOOLEAN :
         BeginUpsert([dtask.info EXCEPT
                        !.active_users = @ \o get_jellyfin_streams(resp)],
                     Len(get_jellyfin_streams(resp)), renderOk)
    /\ UNCHANGED <<now, config, plex, plex_start_time, offline_since,
                   library_cache, last_library_update, dashboard_message_id,
                   file, channel, nextMsgId, info, call, ptask, presence,
                   arg, res>>

\* What the task does when fetch_message or edit raises something other
\* than NotFound: the exception leaves _update_dashboard_message.
OtherError(d) == [d EXCEPT !.pc = "idle", !.info = NoInfo, !.result = "error"]

\* A variant in which NotFound leaves the function like any other error.
NotFoundAsError(d) == OtherError(d)

\* except discord.NotFound: the id is forgotten and the send follows
NotFound(d) == [d EXCEPT !.pc = "send"]

\* channel.fetch_message(self.dashboard_message_id) returns or raises
FetchMessage ==
    /\ dtask.pc = "fetch"
    /\ \E err \in BOOLEAN :
         IF err
         THEN dtask' = OtherError(dtask) /\ UNCHANGED dashboard_message_id
         ELSE IF dashboard_message_id \in channel
         THEN dtask' = [dtask EXCEPT !.pc = "edit"] /\ UNCHANGED dashboard_message_id
         ELSE /\ dtask' = [NotFound(dtask) EXCEPT !.notFound = TRUE]
              /\ dashboard_message_id' = None
    /\ UNCHANGED <<now, config, plex, plex_start_time, offline_since,
                   library_cache, last_library_update, file, channel, nextMsgId,
                   info, call, ptask, presence, arg, res>>

\* message.edit(embed=embed) returns or raises
EditMessage ==
    /\ dtask.pc = "edit"
    /\ \E err \in BOOLEAN :
         IF err
         THEN dtask' = OtherError(dtask) /\ UNCHANGED dashboard_message_id
         ELSE IF dashboard_message_id \in channel
         THEN /\ dtask' = [dtask EXCEPT !.pc = "idle", !.info = NoInfo,
                                        !.result = "edited"]
              /\ UNCHANGED dashboard_message_id
         ELSE /\ dtask' = [NotFound(dtask) EXCEPT !.notFound = TRUE]
              /\ dashboard_message_id' = None
    /\ UNCHANGED <<now, config, plex, plex_start_time, offline_since,
                   library_cache, last_library_update, file, channel, nextMsgId,
                   info, call, ptask, presence, arg, res>>

\* channel.send(embed=embed) returns the new message, whose id is kept and
\* saved, or raises.
SendMessage ==
    /\ dtask.pc = "send"
    /\ nextMsgId <= MaxMsgs
    /\ \E ok \in BOOLEAN, outcome \in SaveOutcomes :
         IF ok
         THEN /\ channel' = channel \cup {nextMsgId}
              /\ nextMsgId' = nextMsgId + 1
              /\ dashboard_message_id' = nextMsgId
              /\ file' = _save_message_id(file, nextMsgId, outcome)
              /\ dtask' = [dtask EXCEPT !.pc = "idle", !.info = NoInfo,
                                        !.result = "sent", !.newId = nextMsgId,
                                        !.save = outcome]
         ELSE /\ dtask' = [dtask EXCEPT !.pc = "idle", !.info = NoInfo,
                                        !.result = "send_failed"]
              /\ UNCHANGED <<channel, nextMsgId, dashboard_message_id, file>>
    /\ UNCHANGED <<now, config, plex, plex_start_time, offline_since,
                   library_cache, last_library_update, info, call, ptask,
                   presence, arg, res>>

\* someone deletes a message of the channel
DeleteMessage ==
    /\ \E m \in channel : channel' = channel \ {m}
    /\ UNCHANGED <<now, config, plex, plex_start_time, offline_since,
                   library_cache, last_library_update, dashboard_message_id,
                   file, nextMsgId, info, call, ptask, presence, dtask, arg, res>>

\* the process is restarted: __init__ runs again
Restart ==
    /\ SetObj(NewObj)
    /\ dashboard_message_id' = _load_message_id(file)
    /\ ptask' = IdleP
    /\ dtask' = IdleD
    /\ info' = NoInfo
    /\ call' = NoCall
    /\ presence' = NoPresence
    /\ UNCHANGED <<now, config, file, channel, nextMsgId, arg, res>>

\* ------------------------------------------------------------ specification
Init ==
    /\ now = 1
    /\ config \in Configs
    /\ plex = NewObj.plex
    /\ plex_start_time = NewObj.plex_start_time
    /\ library_cache = NewObj.library_cache
    /\ last_library_update = NewObj.last_library_update
    /\ offline_since = NewObj.offline_since
    /\ file = AbsentFile
    /\ dashboard_message_id = _load_message_id(file)
    /\ channel = {}
    /\ nextMsgId = 1
    /\ info = NoInfo
    /\ call = NoCall
    /\ ptask = IdleP
    /\ presence = NoPresence
    /\ dtask = IdleD
    /\ arg = <<>>
    /\ res = <<>>

\* The status reader: the clock, get_server_info and get_library_stats
\* calls, restarts.
NextReader ==
    \/ Tick
    \/ CallGetLibraryStats
    \/ CallGetServerInfo
    \/ Restart

SpecReader == Init /\ [][NextReader]_vars

\* The presence updater: update_status ticks as the clock advances.
NextPresence ==
    \/ Tick
    \/ UpdateStatusStart
    \/ UpdateStatusResume

SpecPresence == Init /\ [][NextPresence]_vars

\* The dashboard updater: update_dashboard ticks, messages deleted in the
\* channel, restarts.
NextDashboard ==
    \/ UpdateDashboardStart
    \/ UpdateDashboardResume
    \/ FetchMessage
    \/ EditMessage
    \/ SendMessage
    \/ DeleteMessage
    \/ Restart

SpecDashboard == Init /\ [][NextDashboard]_vars

\* ------------------------------------------- the formatters on sample records
\* Plex session records for get_active_streams: two well-formed ones and
\* three that make format_stream_info raise.
GoodEpisode ==
    PlexRecord(EpisodeAttrs, {}, <<"erin">>, "Shows", "episode", "Pilot",
               <<"L", "o", "s", "t", ":", " ", "X">>, 1, 2, 2004, 30000, 2400000)

\* no usernames attribute: the first statement raises
NoUserAttr ==
    PlexRecord(MovieAttrs \ {"usernames"}, {}, <<"frank">>, "Movies", "movie",
               "Ran", <<>>, 0, 0, 1985, 1000, 5400000)

\* viewOffset is None: viewOffset / duration raises
NullOffset ==
    PlexRecord(MovieAttrs, {"viewOffset"}, <<"gina">>, "Movies", "movie",
               "Big", <<>>, 0, 0, 1988, 0, 5400000)

PlexSamples == {GoodMovie, GoodEpisode, BadMovie, NoUserAttr, NullOffset}

\* Jellyfin sessions for get_jellyfin_streams: two well-formed ones and two
\* that make format_jellyfin_stream_info raise.
JfEpisode ==
    JellyfinRecord(JfAttrs \cup {"SeriesName", "ParentIndexNumber", "IndexNumber"},
                   {}, "hal", "Episode", <<"D", "a", "r", "k">>, 1, 2, "Secrets",
                   2017, Ticks(90, 0), Ticks(3000, 0))

\* "PlayState": null
JfNullState ==
    JellyfinRecord(JfAttrs, {"PlayState"}, "ivy", "Movie", <<>>, 0, 0, "Solaris",
                   1972, Ticks(0, 0), Ticks(7000, 0))

JellyfinSamples == {JfMovie, JfEpisode, JfBad, JfNullState}

\* the lists of at most MaxSessions records over S
ListsOver(S) == UNION { [1..n -> S] : n \in 0..MaxSessions }

\* A connected cog about to format the list arg.list of source arg.source.
InitStreams ==
    /\ now = 1
    /\ config \in Configs
    /\ plex = TRUE
    /\ plex_start_time = 1
    /\ library_cache = NewObj.library_cache
    /\ last_library_update = NewObj.last_library_update
    /\ offline_since = NewObj.offline_since
    /\ file = AbsentFile
    /\ dashboard_message_id = _load_message_id(file)
    /\ channel = {}
    /\ nextMsgId = 1
    /\ info = NoInfo
    /\ call = NoCall
    /\ ptask = IdleP
    /\ presence = NoPresence
    /\ dtask = IdleD
    /\ \/ arg \in [source : {"plex"}, list : ListsOver(PlexSamples)]
       \/ /\ config.jellyfin_enabled
          /\ arg \in [source : {"jellyfin"}, list : ListsOver(JellyfinSamples)]
    /\ res = <<>>

\* get_active_streams when plex.sessions() returns arg.list; the library
\* query a format_stream_info call makes has the outcome out.
CallGetActiveStreams ==
    /\ arg.source = "plex"
    /\ res = <<>>
    /\ \E out \in LibOutcomes :
         \E a \in {get_active_streams(Obj, now, arg.list, OutSeq(out, out))} :
            /\ SetObj(a.st)
            /\ res' = <<a.list>>
    /\ UNCHANGED <<now, config, dashboard_message_id, file, channel, nextMsgId,
                   info, call, ptask, presence, dtask, arg>>

\* get_jellyfin_streams when get_jellyfin_sessions returns arg.list
CallGetJellyfinStreams ==
    /\ arg.source = "jellyfin"
    /\ res = <<>>
    /\ res' = <<get_jellyfin_streams([ok |-> TRUE, list |-> arg.list])>>
    /\ UNCHANGED <<now, config, plex, plex_start_time, offline_since,
                   library_cache, last_library_update, dashboard_message_id,
                   file, channel, nextMsgId, info, call, ptask, presence,
                   dtask, arg>>

NextStreams ==
    \/ CallGetActiveStreams
    \/ CallGetJellyfinStreams

SpecStreams == InitStreams /\ [][NextStreams]_vars

\* ------------------------------------------------- calculate_uptime on its own
\* The connection starts and the clock readings calculate_uptime is applied
\* to: no start recorded, or a start and 0..MaxMinutes whole minutes later,
\* at the beginning and the end of the minute (times in seconds).
UptimeInputs ==
    { [start |-> None, t |-> 1] }
    \cup { [start |-> s, t |-> s + 60 * m + e] :
           s \in {1, 1000}, m \in 0..MaxMinutes, e \in {0, 59} }

InitUptime ==
    /\ \E a \in UptimeInputs :
         /\ now = a.t
         /\ plex_start_time = a.start
         /\ plex = (a.start # None)
    /\ config = default_config
    /\ library_cache = NewObj.library_cache
    /\ last_library_update = NewObj.last_library_update
    /\ offline_since = NewObj.offline_since
    /\ file = AbsentFile
    /\ dashboard_message_id = _load_message_id(file)
    /\ channel = {}
    /\ nextMsgId = 1
    /\ info = NoInfo
    /\ call = NoCall
    /\ ptask = IdleP
    /\ presence = NoPresence
    /\ dtask = IdleD
    /\ arg = <<>>
    /\ res = <<>>

CallCalculateUptime ==
    /\ res = <<>>
    /\ res' = <<calculate_uptime(now, plex_start_time)>>
    /\ UNCHANGED <<now, config, plex, plex_start_time, offline_since,
                   library_cache, last_library_update, dashboard_message_id,
                   file, channel, nextMsgId, info, call, ptask, presence,
                   dtask, arg>>

NextUptime == CallCalculateUptime

SpecUptime == InitUptime /\ [][NextUptime]_vars

\* --------------------------------------------------------- time rendering
\* str(timedelta(milliseconds=ms)).split(".")[0] as a character sequence:
\* "H:MM:SS", preceded by "N day, " / "N days, " from 24 hours on.
TimedeltaStr(ms) ==
    LET seconds == (ms \div 1000) % 86400
        days    == (ms \div 1000) \div 86400
    IN  (IF days = 0 THEN <<>>
         ELSE Digits(days) \o <<" ", "d", "a", "y">>
              \o (IF days # 1 THEN <<"s">> ELSE <<>>) \o <<",", " ">>)
        \o Digits(seconds \div 3600) \o <<":">>
        \o Pad2((seconds % 3600) \div 60) \o <<":">> \o Pad2(seconds % 60)

RECURSIVE SplitAll(_, _)
\* s.split(c): the parts between the occurrences of c
SplitAll(s, c) ==
    IF \A i \in 1..Len(s) : s[i] # c THEN <<s>>
    ELSE <<SplitFirst(s, c)>>
         \o SplitAll(SubSeq(s, Len(SplitFirst(s, c)) + 2, Len(s)), c)

\* _format_time: [raised, text]; int() of a part that is not a number
\* raises ValueError, a missing part IndexError.
_format_time(time_str, duration) ==
    LET parts == SplitAll(time_str, ":")
        n == Len(parts)
        less_than_hour == (duration \div 1000) < 3600
    IN  IF less_than_hour
        THEN IF n < 2 \/ ParseNat(parts[n - 1]) < 0 \/ ParseNat(parts[n]) < 0
             THEN [raised |-> TRUE, text |-> <<>>]
             ELSE [raised |-> FALSE,
                   text |-> Pad2(ParseNat(parts[n - 1])) \o <<":">>
                            \o Pad2(ParseNat(parts[n]))]
        ELSE IF n < 3 \/ ParseNat(parts[1]) < 0 \/ ParseNat(parts[2]) < 0
                \/ ParseNat(parts[3]) < 0
             THEN [raised |-> TRUE, text |-> <<>>]
             ELSE [raised |-> FALSE,
                   text |-> Digits(ParseNat(parts[1])) \o <<":">>
                            \o Pad2(ParseNat(parts[2])) \o <<":">>
                            \o Pad2(ParseNat(parts[3]))]

\* _format_jellyfin_time on whole seconds
_format_jellyfin_time(seconds, total_seconds) ==
    LET hours   == seconds \div 3600
        minutes == (seconds % 3600) \div 60
        secs    == seconds % 60
    IN  IF total_seconds < 3600
        THEN Pad2(minutes) \o <<":">> \o Pad2(secs)
        ELSE Digits(hours) \o <<":">> \o Pad2(minutes) \o <<":">> \o Pad2(secs)

\* The two time strings of a Plex block (lines 292-293): current_time, then
\* total_time; raised when either _format_time call raises.
PlexTimes(viewOffset, duration) ==
    LET cur == _format_time(TimedeltaStr(viewOffset), duration)
        tot == _format_time(TimedeltaStr(duration), duration)
    IN  [raised |-> cur.raised \/ tot.raised, current |-> cur.text,
         total |-> tot.text]

\* The two time strings of a Jellyfin block (lines 418-422) from the ticks.
JellyfinTimes(position_ticks, runtime_ticks) ==
    [raised |-> FALSE,
     current |-> _format_jellyfin_time(position_ticks.sec, runtime_ticks.sec),
     total |-> _format_jellyfin_time(runtime_ticks.sec, runtime_ticks.sec)]

\* The state outside the arguments and the result of a function applied on
\* its own: a cog just constructed with the default configuration.
InitPure ==
    /\ now = 1
    /\ config = default_config
    /\ plex = NewObj.plex
    /\ plex_start_time = NewObj.plex_start_time
    /\ library_cache = NewObj.library_cache
    /\ last_library_update = NewObj.last_library_update
    /\ offline_since = NewObj.offline_since
    /\ file = AbsentFile
    /\ dashboard_message_id = _load_message_id(file)
    /\ channel = {}
    /\ nextMsgId = 1
    /\ info = NoInfo
    /\ call = NoCall
    /\ ptask = IdleP
    /\ presence = NoPresence
    /\ dtask = IdleD

\* Positions and durations in whole seconds around the minute, the hour and
\* the day, and the milliseconds past the second.
TimeSamples == {0, 1, 59, 60, 61, 3599, 3600, 3661, 35999, 36000, 86399,
                86400, 90061}

MilliSamples == {0, 500}

\* arg: a position and a duration; res: what the Plex and the Jellyfin
\* statements made of them (<<>> until applied).
InitTimes ==
    /\ InitPure
    /\ arg \in [pos : TimeSamples, dur : TimeSamples, ms : MilliSamples]
    /\ res = [plex |-> <<>>, jellyfin |-> <<>>]

CallFormatTime ==
    /\ res.plex = <<>>
    /\ res' = [res EXCEPT !.plex =
                 <<PlexTimes(arg.pos * 1000 + arg.ms, arg.dur * 1000 + arg.ms)>>]
    /\ UNCHANGED <<now, config, plex, plex_start_time, offline_since,
                   library_cache, last_library_update, dashboard_message_id,
                   file, channel, nextMsgId, info, call, ptask, presence,
                   dtask, arg>>

CallFormatJellyfinTime ==
    /\ res.jellyfin = <<>>
    /\ res' = [res EXCEPT !.jellyfin =
                 <<JellyfinTimes(Ticks(arg.pos, arg.ms * 10000),
                                 Ticks(arg.dur, arg.ms * 10000))>>]
    /\ UNCHANGED <<now, config, plex, plex_start_time, offline_since,
                   library_cache, last_library_update, dashboard_message_id,
                   file, channel, nextMsgId, info, call, ptask, presence,
                   dtask, arg>>

NextTimes ==
    \/ CallFormatTime
    \/ CallFormatJellyfinTime

SpecTimes == InitTimes /\ [][NextTimes]_vars

\* --------------------------------------------------------- title formatting
\* One piece of content as both servers report it: its type, its series,
\* and which of series, title, season, episode and year the record does not
\* carry (the attribute or key is absent); a movie carries no series,
\* season or episode.
ContentFields == {"series", "title", "season", "episode", "year"}

ContentSamples ==
    { c \in [type : {"episode", "movie"},
             series : {<<"L", "o", "s", "t", ":", " ", "X">>, <<"D", "a", "r", "k">>},
             absent : SUBSET ContentFields] :
        c.type = "movie" => {"series", "season", "episode"} \subseteq c.absent }

\* the Plex session object of the content c
PlexOf(c) ==
    PlexRecord(({"usernames", "librarySectionTitle", "type", "viewOffset", "duration"}
                \cup (IF "series" \in c.absent THEN {} ELSE {"grandparentTitle"})
                \cup (IF "title" \in c.absent THEN {} ELSE {"title"})
                \cup (IF "season" \in c.absent THEN {} ELSE {"parentIndex"})
                \cup (IF "episode" \in c.absent THEN {} ELSE {"index"})
                \cup (IF "year" \in c.absent THEN {} ELSE {"year"})),
               {}, <<"alice">>, "Shows", c.type, "Up", c.series, 1, 12, 2009,
               60000, 2400000)

\* the Jellyfin NowPlayingItem of the content c
JellyfinOf(c) ==
    JellyfinRecord(({"UserName", "Type", "PlayState", "PositionTicks", "RunTimeTicks"}
                    \cup (IF "series" \in c.absent THEN {} ELSE {"SeriesName"})
                    \cup (IF "title" \in c.absent THEN {} ELSE {"Name"})
                    \cup (IF "season" \in c.absent THEN {} ELSE {"ParentIndexNumber"})
                    \cup (IF "episode" \in c.absent THEN {} ELSE {"IndexNumber"})
                    \cup (IF "year" \in c.absent THEN {} ELSE {"ProductionYear"})),
                   {}, "alice", IF c.type = "episode" THEN "Episode" ELSE "Movie",
                   c.series, 1, 12, "Up", 2009, Ticks(60, 0), Ticks(2400, 0))

\* arg: the content; res: what each title function returned (<<>> until called)
InitTitles ==
    /\ InitPure
    /\ arg \in ContentSamples
    /\ res = [plex |-> <<>>, jellyfin |-> <<>>]

CallGetFormattedTitle ==
    /\ res.plex = <<>>
    /\ res' = [res EXCEPT !.plex = <<_get_formatted_title(PlexOf(arg))>>]
    /\ UNCHANGED <<now, config, plex, plex_start_time, offline_since,
                   library_cache, last_library_update, dashboard_message_id,
                   file, channel, nextMsgId, info, call, ptask, presence,
                   dtask, arg>>

CallGetJellyfinFormattedTitle ==
    /\ res.jellyfin = <<>>
    /\ res' = [res EXCEPT !.jellyfin =
                 <<_get_jellyfin_formatted_title(JellyfinOf(arg))>>]
    /\ UNCHANGED <<now, config, plex, plex_start_time, offline_since,
                   library_cache, last_library_update, dashboard_message_id,
                   file, channel, nextMsgId, info, call, ptask, presence,
                   dtask, arg>>

NextTitles ==
    \/ CallGetFormattedTitle
    \/ CallGetJellyfinFormattedTitle

SpecTitles == InitTitles /\ [][NextTitles]_vars

\* ------------------------------------------------- _load_message_id on its own
\* The message-id files _load_message_id can find besides the ones the
\* program writes: valid JSON without the key ({}), with a null id, with a
\* non-numeric string, with a string of digits, and JSON that is no object.
MaxId == 30

FileStates ==
    { AbsentFile, MalformedFile,
      [kind |-> "no_key", id |-> None],
      [kind |-> "null_id", id |-> None],
      [kind |-> "text_id", id |-> None],
      [kind |-> "not_object", id |-> None] }
    \cup { IdFile(n) : n \in 1..MaxId }
    \cup { [kind |-> "numeric_text", id |-> Digits(n)] : n \in 1..MaxId }

\* The call raises: int(None) is a TypeError and list.get an AttributeError,
\* and the except clause names JSONDecodeError and ValueError only.
LoadRaises(f) == f.kind \in {"no_key", "null_id", "not_object"}

InitLoad ==
    /\ now = 1
    /\ config = default_config
    /\ plex = NewObj.plex
    /\ plex_start_time = NewObj.plex_start_time
    /\ library_cache = NewObj.library_cache
    /\ last_library_update = NewObj.last_library_update
    /\ offline_since = NewObj.offline_since
    /\ file \in FileStates
    /\ dashboard_message_id = None
    /\ channel = {}
    /\ nextMsgId = 1
    /\ info = NoInfo
    /\ call = NoCall
    /\ ptask = IdleP
    /\ presence = NoPresence
    /\ dtask = IdleD
    /\ arg = <<>>
    /\ res = <<>>

\* __init__ reaches self.dashboard_message_id = self._load_message_id()
CallLoadMessageId ==
    /\ res = <<>>
    /\ IF LoadRaises(file)
       THEN /\ res' = <<[raised |-> TRUE, value |-> None]>>
            /\ UNCHANGED dashboard_message_id
       ELSE /\ res' = <<[raised |-> FALSE, value |-> _load_message_id(file)]>>
            /\ dashboard_message_id' = _load_message_id(file)
    /\ UNCHANGED <<now, config, plex, plex_start_time, offline_since,
                   library_cache, last_library_update, file, channel,
                   nextMsgId, info, call, ptask, presence, dtask, arg>>

NextLoad == CallLoadMessageId

SpecLoad == InitLoad /\ [][NextLoad]_vars

\* -------------------------------------------------------------- _load_config
\* The nested settings: the groups of default_config and the keys of each.
SettingGroups == {"dashboard", "plex_sections", "presence", "cache"}

GroupKeys(g) ==
    CASE g = "dashboard" -> {"name", "icon_url", "footer_icon_url"}
      [] g = "plex_sections" -> {"show_all", "sections"}
      [] g = "presence" -> {"sections", "offline_text", "stream_text"}
      [] g = "cache" -> {"library_update_interval"}

\* the built-in value and a value given by the file, for key k of group g
DefaultValue(g, k) == <<"default", g, k>>

FileValue(g, k) == <<"file", g, k>>

\* default_config as a map group -> key -> value
DefaultSettings ==
    [g \in SettingGroups |-> [k \in GroupKeys(g) |-> DefaultValue(g, k)]]

\* the keys a file gives for each group it has
KeyChoices ==
    [dashboard : SUBSET GroupKeys("dashboard"),
     plex_sections : SUBSET GroupKeys("plex_sections"),
     presence : SUBSET GroupKeys("presence"),
     cache : SUBSET GroupKeys("cache")]

\* config.json: absent, not valid JSON, or an object giving some of the
\* groups, each with some of its keys.
ConfigFiles ==
    { [kind |-> "absent", data |-> <<>>], [kind |-> "malformed", data |-> <<>>] }
    \cup { [kind |-> "object",
            data |-> [g \in G |-> [k \in sel[g] |-> FileValue(g, k)]]] :
           G \in SUBSET SettingGroups, sel \in KeyChoices }

\* _load_config: {**default_config, **config}, the defaults when the file
\* is missing or not valid JSON
_load_config(f) ==
    IF f.kind # "object" THEN DefaultSettings
    ELSE [g \in SettingGroups |->
            IF g \in DOMAIN f.data THEN f.data[g] ELSE DefaultSettings[g]]

\* arg: the configuration file; res: the loaded configuration
InitConfig ==
    /\ InitPure
    /\ arg \in ConfigFiles
    /\ res = <<>>

CallLoadConfig ==
    /\ res = <<>>
    /\ res' = <<_load_config(arg)>>
    /\ UNCHANGED <<now, config, plex, plex_start_time, offline_since,
                   library_cache, last_library_update, dashboard_message_id,
                   file, channel, nextMsgId, info, call, ptask, presence,
                   dtask, arg>>

NextConfig == CallLoadConfig

SpecConfig == InitConfig /\ [][NextConfig]_vars

\* ------------------------------------------------------ download total size
\* The most downloads the downloads provider reports at once.
MaxDownloads == 5

\* download["size"].split(): the parts between runs of blanks
split(s) == SelectSeq(SplitAll(s, " "), LAMBDA p : p # <<>>)

\* float(value) counted in halves (the sizes carry at most one decimal,
\* .0 or .5, so every float here is exact); -1 where float() raises
FloatHalves(v) ==
    LET p == SplitAll(v, ".")
    IN  IF Len(p) = 1 THEN (IF ParseNat(v) < 0 THEN -1 ELSE 2 * ParseNat(v))
        ELSE IF Len(p) = 2 /\ ParseNat(p[1]) >= 0 /\ p[2] \in {<<"0">>, <<"5">>}
             THEN 2 * ParseNat(p[1]) + (IF p[2] = <<"5">> THEN 1 ELSE 0)
        ELSE -1

\* round(a / d) to the nearest integer, ties to even (float formatting)
RoundHalfEven(a, d) ==
    LET f == a \div d
        r == a % d
    IN  IF 2 * r > d \/ (2 * r = d /\ f % 2 = 1) THEN f + 1 ELSE f

\* f"{num / den:.2f}"
Fixed2(num, den) ==
    LET h == RoundHalfEven((num % den) * 100, den)
        whole == (num \div den) + (IF h = 100 THEN 1 ELSE 0)
    IN  Digits(whole) \o <<".">> \o Pad2(h % 100)

\* one MB and one GB counted in half KB
HalfKBPerMB == 2048
HalfKBPerGB == 2048 * 1024

\* what one download adds to total_size_mb, counted in half KB
SizeTerm(size) ==
    LET value == FloatHalves(split(size)[1])
        unit == split(size)[2]
    IN  IF unit = <<"KB">> THEN value
        ELSE IF unit = <<"MB">> THEN value * 1024
        ELSE IF unit = <<"GB">> THEN value * 1024 * 1024
        ELSE 0

RECURSIVE TotalSizeFrom(_, _)
\* the loop of _calculate_total_size over the downloads left, total so far
TotalSizeFrom(downloads, total) ==
    IF downloads = <<>> THEN total
    ELSE IF Head(downloads).size = <<"Unknown">>
         THEN TotalSizeFrom(Tail(downloads), total)
    ELSE TotalSizeFrom(Tail(downloads), total + SizeTerm(Head(downloads).size))

\* A variant that renders GB only above 1024 MB.
_calculate_total_size_strict(downloads) ==
    LET total_size_mb == TotalSizeFrom(downloads, 0)
    IN  IF total_size_mb > 1024 * HalfKBPerMB
        THEN Fixed2(total_size_mb, HalfKBPerGB) \o <<" GB">>
        ELSE Fixed2(total_size_mb, HalfKBPerMB) \o <<" MB">>

_calculate_total_size(downloads) ==
    LET total_size_mb == TotalSizeFrom(downloads, 0)
    IN  IF total_size_mb >= 1024 * HalfKBPerMB
        THEN Fixed2(total_size_mb, HalfKBPerGB) \o <<" GB">>
        ELSE Fixed2(total_size_mb, HalfKBPerMB) \o <<" MB">>

\* The downloads part of _add_embed_fields: the header field's name, the
\* downloads whose lines are shown, and the "Downloads" field's value; the
\* placeholder when there are no downloads.
DownloadFields(all) ==
    IF all = <<>> THEN [header |-> <<"Current Downloads:">>, shown |-> <<>>,
                        total |-> <<>>]
    ELSE LET downloads == SubSeq(all, 1, IF Len(all) < 4 THEN Len(all) ELSE 4)
             download_count == Len(all)
         IN  [header |-> Digits(download_count) \o <<" current Download">>
                         \o (IF download_count # 1 THEN <<"s">> ELSE <<>>)
                         \o <<":">>,
              shown |-> downloads,
              total |-> _calculate_total_size(downloads)]

\* size strings of the form 'Unknown' or '<number> <unit>'
SizeSamples ==
    { <<"Unknown">>,
      <<"5", "1", "2", " ", "KB">>,
      <<"1", " ", "MB">>,
      <<"1", "0", "2", "3", ".", "5", " ", "MB">>,
      <<"2", " ", "GB">>,
      <<"3", " ", "TB">> }

DownloadLists ==
    UNION { [1..n -> [size : SizeSamples]] : n \in 0..MaxDownloads }

\* arg: the downloads the provider reports; res: the total of the list and
\* the dashboard's download fields (<<>> until computed).
InitDownloads ==
    /\ InitPure
    /\ arg \in DownloadLists
    /\ res = [total |-> <<>>, fields |-> <<>>]

CallCalculateTotalSize ==
    /\ res.total = <<>>
    /\ res' = [res EXCEPT !.total = <<_calculate_total_size(arg)>>]
    /\ UNCHANGED <<now, config, plex, plex_start_time, offline_since,
                   library_cache, last_library_update, dashboard_message_id,
                   file, channel, nextMsgId, info, call, ptask, presence,
                   dtask, arg>>

CallAddDownloadFields ==
    /\ res.fields = <<>>
    /\ res' = [res EXCEPT !.fields = <<DownloadFields(arg)>>]
    /\ UNCHANGED <<now, config, plex, plex_start_time, offline_since,
                   library_cache, last_library_update, dashboard_message_id,
                   file, channel, nextMsgId, info, call, ptask, presence,
                   dtask, arg>>

NextDownloads ==
    \/ CallCalculateTotalSize
    \/ CallAddDownloadFields

SpecDownloads == InitDownloads /\ [][NextDownloads]_vars

\* --------------------------------------------------- offline-duration phrase
\* The most whole days an outage has lasted.
MaxDays == 2

\* f"{n} {unit}{'s' if n != 1 else ''}"
Counted(n, unit) ==
    Digits(n) \o <<" ", unit>> \o (IF n # 1 THEN <<"s">> ELSE <<>>)

\* A variant that always starts the phrase at the days.
time_diff_str_from_days(since, time_diff) ==
    IF since = None THEN <<"Unknown duration">>
    ELSE LET days == time_diff.days
             hours == time_diff.seconds \div 3600
             minutes == (time_diff.seconds % 3600) \div 60
         IN  IF days > 0 \/ hours > 0 \/ minutes > 0
             THEN Counted(days, "day") \o <<", ">> \o Counted(hours, "hour")
                  \o <<", ">> \o Counted(minutes, "minute") \o <<" ago">>
             ELSE <<"Just now">>

\* time_diff_str of create_dashboard_embed: since is info["offline_since"]
\* (None when unknown), time_diff = utcnow() - offline_since as a
\* timedelta of whole days and the seconds past them.
time_diff_str(since, time_diff) ==
    IF since = None THEN <<"Unknown duration">>
    ELSE LET days == time_diff.days
             hours == time_diff.seconds \div 3600
             minutes == (time_diff.seconds % 3600) \div 60
         IN  IF days > 0
             THEN Counted(days, "day") \o <<", ">> \o Counted(hours, "hour")
                  \o <<", ">> \o Counted(minutes, "minute") \o <<" ago">>
             ELSE IF hours > 0
             THEN Counted(hours, "hour") \o <<", ">> \o Counted(minutes, "minute")
                  \o <<" ago">>
             ELSE IF minutes > 0
             THEN Counted(minutes, "minute") \o <<" ago">>
             ELSE <<"Just now">>

\* every hour and minute of the day, at the start and the end of the minute
ElapsedSamples ==
    [days : 0..MaxDays,
     seconds : {h * 3600 + m * 60 + s : h \in 0..23, m \in 0..59, s \in {0, 59}}]

\* arg: whether the snapshot carries offline_since, and the time elapsed
\* since; res: the phrase (<<>> until built).
InitPhrase ==
    /\ InitPure
    /\ arg \in [offline_since : {None, 1}, time_diff : ElapsedSamples]
    /\ arg.offline_since = None => arg.time_diff = [days |-> 0, seconds |-> 0]
    /\ res = <<>>

CallTimeDiffStr ==
    /\ res = <<>>
    /\ res' = <<time_diff_str(arg.offline_since, arg.time_diff)>>
    /\ UNCHANGED <<now, config, plex, plex_start_time, offline_since,
                   library_cache, last_library_update, dashboard_message_id,
                   file, channel, nextMsgId, info, call, ptask, presence,
                   dtask, arg>>

NextPhrase == CallTimeDiffStr

SpecPhrase == InitPhrase /\ [][NextPhrase]_vars

\* ------------------------------------------------------------ progress bar
\* The latest position of a session, in seconds.
MaxPosition == 13

\* c * n: n copies of c, none when n <= 0
Repeat(c, n) == IF n <= 0 THEN <<>> ELSE [i \in 1..n |-> c]

\* the bar of progress_display with int(progress_percent / 10) = tenths
Bar(tenths) == Repeat("filled", tenths) \o Repeat("empty", 10 - tenths)

\* progress_display of format_stream_info; a session carries viewOffset and
\* duration in milliseconds and a list of players. int(progress_percent / 10)
\* is computed exactly (the sampled positions and durations are those where
\* the float quotient has the same whole part).
PlexProgressDisplay(session) ==
    LET tenths ==
            IF "viewOffset" \in session.has /\ "duration" \in session.has
               /\ session.duration # 0
            THEN (session.viewOffset * 10) \div session.duration
            ELSE 0
        is_paused ==
            IF "players" \in session.has /\ session.players # <<>>
            THEN session.players[1].state = "paused"
            ELSE FALSE
    IN  IF is_paused THEN [kind |-> "paused", bar |-> <<>>]
        ELSE [kind |-> "bar", bar |-> Bar(tenths)]

\* the number of ticks of a Ticks value (small enough here to be counted)
TickCount(t) == t.sec * 10000000 + t.frac

\* progress_display of format_jellyfin_stream_info; play_state and
\* now_playing are the session's PlayState and NowPlayingItem.
JellyfinProgressDisplay(play_state, now_playing) ==
    LET position_ticks == IF "PositionTicks" \in play_state.has
                          THEN TickCount(play_state.PositionTicks) ELSE 0
        runtime_ticks == IF "RunTimeTicks" \in now_playing.has
                         THEN TickCount(now_playing.RunTimeTicks) ELSE 0
        tenths == IF runtime_ticks > 0
                  THEN (position_ticks * 10) \div runtime_ticks ELSE 0
        is_paused == IF "IsPaused" \in play_state.has
                     THEN play_state.IsPaused ELSE FALSE
    IN  IF is_paused THEN [kind |-> "paused", bar |-> <<>>]
        ELSE [kind |-> "bar", bar |-> Bar(tenths)]

DurationSamples == {0, 4, 8, 10}

\* A playing session as both servers report it: position and duration in
\* seconds, which of the two the record does not carry, and whether the
\* player is paused.
ProgressSamples ==
    [pos : 0..MaxPosition, dur : DurationSamples,
     absent : SUBSET {"position", "duration"}, paused : BOOLEAN]

PlexProgressOf(a) ==
    [has |-> ({"players"}
              \cup (IF "position" \in a.absent THEN {} ELSE {"viewOffset"})
              \cup (IF "duration" \in a.absent THEN {} ELSE {"duration"})),
     viewOffset |-> a.pos * 1000, duration |-> a.dur * 1000,
     players |-> <<[state |-> IF a.paused THEN "paused" ELSE "playing"]>>]

JellyfinPlayStateOf(a) ==
    [has |-> ({"IsPaused"}
              \cup (IF "position" \in a.absent THEN {} ELSE {"PositionTicks"})),
     PositionTicks |-> Ticks(a.pos, 0), IsPaused |-> a.paused]

JellyfinNowPlayingOf(a) ==
    [has |-> (IF "duration" \in a.absent THEN {} ELSE {"RunTimeTicks"}),
     RunTimeTicks |-> Ticks(a.dur, 0)]

InitProgress ==
    /\ InitPure
    /\ arg \in ProgressSamples
    /\ res = [plex |-> <<>>, jellyfin |-> <<>>]

CallPlexProgress ==
    /\ res.plex = <<>>
    /\ res' = [res EXCEPT !.plex = <<PlexProgressDisplay(PlexProgressOf(arg))>>]
    /\ UNCHANGED <<now, config, plex, plex_start_time, offline_since,
                   library_cache, last_library_update, dashboard_message_id,
                   file, channel, nextMsgId, info, call, ptask, presence,
                   dtask, arg>>

CallJellyfinProgress ==
    /\ res.jellyfin = <<>>
    /\ res' = [res EXCEPT !.jellyfin =
                 <<JellyfinProgressDisplay(JellyfinPlayStateOf(arg),
                                           JellyfinNowPlayingOf(arg))>>]
    /\ UNCHANGED <<now, config, plex, plex_start_time, offline_since,
                   library_cache, last_library_update, dashboard_message_id,
                   file, channel, nextMsgId, info, call, ptask, presence,
                   dtask, arg>>

NextProgress ==
    \/ CallPlexProgress
    \/ CallJellyfinProgress

SpecProgress == InitProgress /\ [][NextProgress]_vars

\* ------------------------------------------------------------ the two timers
\* Both loops run on one event loop: a tick of update_status and a tick of
\* update_dashboard interleave at their awaits (the Jellyfin request, the
\* presence change, the message fetch, edit and send), and each step between
\* two awaits runs alone. The Jellyfin integration is on, so that both
\* ticks suspend between their status read and their output, and every
\* library of the server is shown.
InitTimers ==
    /\ Init
    /\ config.jellyfin_enabled /\ config.show_all

LibB == << Section("Shows", 3, 9), Section("Kids", 1, 0) >>

\* The answers of the media server while both timers run (it stays
\* reachable): it answers every query, with one library list and no session
\* or with the other list and one session; or its library query fails.
TimerAnswers ==
    { [connOk |-> TRUE, o1 |-> [ok |-> TRUE, srv |-> LibA, failAt |-> 0],
       o2 |-> [ok |-> TRUE, srv |-> LibA, failAt |-> 0],
       sess |-> [ok |-> TRUE, list |-> <<>>], sess2ok |-> TRUE],
      [connOk |-> TRUE, o1 |-> [ok |-> TRUE, srv |-> LibB, failAt |-> 0],
       o2 |-> [ok |-> TRUE, srv |-> LibB, failAt |-> 0],
       sess |-> [ok |-> TRUE, list |-> <<GoodMovie>>], sess2ok |-> TRUE],
      [connOk |-> TRUE, o1 |-> [ok |-> FALSE, srv |-> LibA, failAt |-> 0],
       o2 |-> [ok |-> FALSE, srv |-> LibA, failAt |-> 0],
       sess |-> [ok |-> TRUE, list |-> <<>>], sess2ok |-> TRUE] }

TimerStatusStart == UpdateStatusStartOn(TimerAnswers)

TimerDashboardStart == UpdateDashboardStartOn(TimerAnswers)

NextTimers ==
    \/ Tick
    \/ TimerStatusStart
    \/ UpdateStatusResume
    \/ TimerDashboardStart
    \/ UpdateDashboardResume
    \/ FetchMessage
    \/ EditMessage
    \/ SendMessage

SpecTimers == InitTimers /\ [][NextTimers]_vars

\* ================================================================== claims
\* The get_library_stats calls recorded in call.
LibCalls == Range(call.lib)

\* ----------------------------------------------------------------------- C1
\* C1 as stated: a get_library_stats call made when the time since the last
\* successful refresh is >= the interval (equal included), with the server
\* reachable and the query succeeding, replaces the cache by the fresh stats
\* and resets the clock; a call made when it is < the interval leaves both
\* untouched.
C1_StaleAtInterval ==
    \A e \in LibCalls :
        /\ (e.last0 # None /\ e.t - e.last0 >= library_update_interval
              /\ e.reachable /\ e.queryOk)
           => (e.cache1 = e.fresh /\ e.last1 = e.t)
        /\ (e.last0 # None /\ e.t - e.last0 < library_update_interval)
           => (e.cache1 = e.cache0 /\ e.last1 = e.last0)

\* C1 amended: the cache is replaced by the fresh stats, the clock reset and
\* the fresh stats returned when the time since the last refresh is > the
\* interval (server reachable, query succeeding); when it is <= the interval
\* (equal included) the cache and the clock are untouched and the cache is
\* returned, whatever the server would answer.
C1_StaleAfterInterval ==
    \A e \in LibCalls :
        /\ (e.last0 # None /\ e.t - e.last0 > library_update_interval
              /\ e.reachable /\ e.queryOk)
           => (e.cache1 = e.fresh /\ e.last1 = e.t /\ e.ret = e.fresh)
        /\ (e.last0 # None /\ e.t - e.last0 <= library_update_interval)
           => (e.cache1 = e.cache0 /\ e.last1 = e.last0 /\ e.ret = e.cache0)

\* a stale non-empty cache was replaced by different stats
C1_Witness ==
    \E e \in LibCalls :
        /\ e.last0 # None /\ e.t - e.last0 > library_update_interval
        /\ e.reachable /\ e.queryOk
        /\ e.cache0 # <<>> /\ e.cache1 # e.cache0 /\ e.last1 = e.t

\* ----------------------------------------------------------------------- C2
\* C2 as stated: when the stored id exists and the channel reports the
\* message missing, the update sends one new message, the in-memory id is
\* the new message's id and the file holds that id; when fetch and edit
\* succeed nothing is sent and the id and the file are as before.
C2_NotFoundSendsAndPersists ==
    /\ (dtask.pc = "idle" /\ dtask.notFound)
       => /\ nextMsgId = dtask.next0 + 1
          /\ dashboard_message_id = dtask.next0
          /\ file = IdFile(dtask.next0)
    /\ (dtask.result = "edited")
       => /\ nextMsgId = dtask.next0
          /\ dashboard_message_id = dtask.startId
          /\ file = dtask.file0

\* C2 amended: when the channel reports the stored message missing, the
\* update forgets the id and attempts exactly one send; if the send
\* succeeds the in-memory id is the new message's id and the file holds it
\* provided the write succeeded (a failed open leaves the file as it was, a
\* failed write leaves it unreadable); if the send raises, no message is
\* created, the id stays None and the file is untouched. When fetch and
\* edit succeed nothing is sent and the id and the file are as before.
C2_NotFoundSendsOnce ==
    /\ (dtask.pc = "idle" /\ dtask.notFound)
       => /\ dtask.startId # None
          /\ dtask.result \in {"sent", "send_failed"}
    /\ (dtask.pc = "idle" /\ dtask.notFound /\ dtask.result = "sent")
       => /\ nextMsgId = dtask.next0 + 1
          /\ dashboard_message_id = dtask.next0
          /\ dtask.newId = dtask.next0
          /\ file = CASE dtask.save = "ok" -> IdFile(dtask.next0)
                      [] dtask.save = "open_fails" -> dtask.file0
                      [] OTHER -> MalformedFile
    /\ (dtask.pc = "idle" /\ dtask.notFound /\ dtask.result = "send_failed")
       => /\ nextMsgId = dtask.next0
          /\ dashboard_message_id = None
          /\ file = dtask.file0
    /\ (dtask.result = "edited")
       => /\ dtask.startId # None
          /\ nextMsgId = dtask.next0
          /\ dashboard_message_id = dtask.startId
          /\ file = dtask.file0

\* the stored message was missing; a new one was sent and its id written
C2_Witness ==
    /\ dtask.pc = "idle" /\ dtask.notFound /\ dtask.result = "sent"
    /\ dtask.startId # None /\ dtask.save = "ok"
    /\ dashboard_message_id = dtask.newId
    /\ file = IdFile(dtask.newId) /\ file # dtask.file0

\* ----------------------------------------------------------------------- C3
\* C3 as stated: of two consecutive get_server_info calls that both return
\* an offline snapshot, the second carries the offline_since of the first
\* (one timestamp per outage, whether a connect or a query failed).
C3_OfflineSinceSetOncePerOutage ==
    [][(info.status = "offline" /\ info'.status = "offline")
       => info'.offline_since = info.offline_since]_vars

\* ----------------------------------------------------------------------- C4
\* the combined stream count update_status last chose a presence from
PresenceStreams == presence.plex_streams + presence.jellyfin_streams

\* C4: the presence is the offline text with do-not-disturb whenever the
\* snapshot is not online, whatever the stream counts; otherwise the
\* stream-count text (with "s" iff the count is not 1) whenever the combined
\* count is > 0; the library summary only when online with a count of 0.
C4_PresencePriority ==
    presence.status # "none" =>
        /\ presence.server # "online"
           => presence.text = <<"Server Offline!">> /\ presence.status = "dnd"
        /\ (presence.server = "online" /\ PresenceStreams > 0)
           => /\ presence.status = "online"
              /\ presence.text =
                    Digits(PresenceStreams) \o <<" active Stream">>
                    \o (IF PresenceStreams = 1 THEN <<>> ELSE <<"s">>)
                    \o <<" ", "green">>
        /\ (presence.server = "online" /\ PresenceStreams = 0)
           => /\ presence.status = "online"
              /\ presence.text = SummaryText(presence_parts(config.presence_sections,
                                                            presence.library_stats))
              /\ presence.text # <<"Server Offline!">>
              /\ presence.text[Len(presence.text)] # "green"

\* the server is offline while Jellyfin streams are active
C4_Witness ==
    /\ presence.server = "offline"
    /\ presence.jellyfin_streams > 0
    /\ presence.text = <<"Server Offline!">>
    /\ presence.status = "dnd"

\* ----------------------------------------------------------------------- C5
\* the shape of an offline snapshot: every configured library at 0, no streams
OfflineShape(snapshot) ==
    /\ snapshot.status = "offline"
    /\ Len(snapshot.library_stats) = Len(config.sections)
    /\ \A i \in 1..Len(config.sections) :
          /\ snapshot.library_stats[i].title = config.sections[i].title
          /\ snapshot.library_stats[i].count = 0
          /\ snapshot.library_stats[i].episodes = 0
    /\ snapshot.active_users = <<>>
    /\ snapshot.current_streams = <<>>

\* C5 as stated: get_server_info returns the offline snapshot whenever the
\* connect or any query of the call (library or sessions) fails, and the
\* online snapshot only when the connect and every query succeeded.
C5_AnyFailureGoesOffline ==
    call.op = "get_server_info" =>
        /\ info.status \in {"online", "offline"}
        /\ info.status = "online"
           <=> /\ call.connOk /\ call.sessOk /\ call.sess2ok
               /\ \A e \in LibCalls : e.queried => e.queryOk
        /\ info.status = "offline" => OfflineShape(info)

\* C5 amended: get_server_info returns the offline snapshot exactly when the
\* connect fails or one of the two plex.sessions() calls raises; a library
\* query that fails is caught inside get_library_stats and the snapshot is
\* online with the previous cache as its library stats. It never raises.
C5_SessionFailureGoesOffline ==
    call.op = "get_server_info" =>
        /\ info.status \in {"online", "offline"}
        /\ info.status = "online"
           <=> (call.connOk /\ call.sessOk /\ call.sess2ok)
        /\ info.status = "offline" => OfflineShape(info)
        /\ info.status = "online"
           => /\ call.lib # <<>>
              /\ info.library_stats = call.lib[1].ret
              /\ (call.lib[1].queried /\ ~call.lib[1].queryOk)
                 => info.library_stats = call.lib[1].cache0

\* an online snapshot from a call whose library query raised
C5_Witness ==
    /\ call.op = "get_server_info"
    /\ info.status = "online"
    /\ \E e \in LibCalls : e.queried /\ ~e.queryOk

\* ----------------------------------------------------------------------- C6
\* C6: a get_library_stats call on a stale (or never filled) cache whose
\* reconnect fails or whose query raises, at any point, returns the previous
\* cache and leaves the cache and the staleness clock as they were.
C6_FailedRefreshKeepsCache ==
    \A e \in LibCalls :
        ((e.last0 = None \/ e.t - e.last0 > library_update_interval)
           /\ (~e.reachable \/ ~e.queryOk))
        => (e.ret = e.cache0 /\ e.cache1 = e.cache0 /\ e.last1 = e.last0)

\* the query of a stale, non-empty cache raised after building part of the map
C6_Witness ==
    \E e \in LibCalls :
        /\ e.last0 # None /\ e.t - e.last0 > library_update_interval
        /\ e.reachable /\ e.queried /\ ~e.queryOk
        /\ e.partial # <<>> /\ e.partial # e.cache0
        /\ e.cache0 # <<>> /\ e.cache1 = e.cache0

\* ----------------------------------------------------------------------- C7
\* C7 as stated: once a dashboard message has been created, no tick sends a
\* new message while that message still exists in the channel, restarts
\* included.
C7_NoDuplicateWhileMessageExists ==
    [][(nextMsgId' > nextMsgId /\ nextMsgId > 1)
       => (nextMsgId - 1) \notin channel]_vars

\* C7 amended: a new message is sent only in a tick that started with no
\* known id or in which the channel reported the message not found; after a
\* restart the known id is the one the file holds, so a message that still
\* exists is sent again only when its id is not in the file (its write
\* failed) and a restart forgot it.
C7_SendOnlyWithoutIdOrNotFound ==
    [][(nextMsgId' > nextMsgId)
       => /\ dtask.startId = None \/ dtask.notFound
          /\ (nextMsgId > 1 /\ (nextMsgId - 1) \in channel)
             => file # IdFile(nextMsgId - 1)]_vars

\* a second message was sent, by a tick that knew no id, while the first exists
C7_Witness ==
    /\ channel = {1, 2}
    /\ dtask.result = "sent" /\ dtask.startId = None /\ dtask.newId = 2

\* ----------------------------------------------------------------------- C8
\* the sample records on which the formatters raise
MalformedSamples == {BadMovie, NoUserAttr, NullOffset, JfBad, JfNullState}

\* the display name the block of a well-formed sample record ends with
SampleUser(r) ==
    CASE r = GoodMovie -> "Al"
      [] r = GoodEpisode -> "erin"
      [] r = JfMovie -> "carol"
      [] r = JfEpisode -> "hal"
      [] OTHER -> "?"

\* C8: get_active_streams and get_jellyfin_streams return one entry per
\* session record, in session order: entry i is the placeholder numbered i
\* when record i is malformed and the block of record i otherwise, whatever
\* the other records are.
C8_OneEntryPerRecord ==
    res # <<>> =>
        /\ Len(res[1]) = Len(arg.list)
        /\ \A i \in 1..Len(arg.list) :
              /\ res[1][i].source = arg.source
              /\ IF arg.list[i] \in MalformedSamples
                 THEN res[1][i] = [kind |-> "placeholder", source |-> arg.source,
                                   idx |-> i]
                 ELSE /\ res[1][i].kind = "block"
                      /\ res[1][i].header[Len(res[1][i].header)]
                            = SampleUser(arg.list[i])

\* a malformed record first, a well-formed one second
C8_Witness ==
    /\ res # <<>>
    /\ arg.source = "plex"
    /\ arg.list = <<NoUserAttr, GoodEpisode>>
    /\ res[1][1] = [kind |-> "placeholder", source |-> "plex", idx |-> 1]
    /\ res[1][2].kind = "block"

\* ----------------------------------------------------------------------- C9
\* the presence-configured libraries present in the stats, in configuration order
PresentSections ==
    SelectSeq(config.presence_sections,
              LAMBDA s : \E k \in 1..Len(presence.library_stats) :
                            presence.library_stats[k].title = s.section_title)

\* "<count> <display name> <emoji>" of the i-th of them
SummaryEntry(i) ==
    LET s == PresentSections[i]
        k == CHOOSE k \in 1..Len(presence.library_stats) :
                presence.library_stats[k].title = s.section_title
    IN  FormatCount(presence.library_stats[k].count)
        \o <<" ", s.display_name, " ", s.emoji>>

RECURSIVE SummaryFrom(_)
\* the entries from the i-th on, joined by " | "
SummaryFrom(i) ==
    IF i > Len(PresentSections) THEN <<>>
    ELSE IF i = Len(PresentSections) THEN SummaryEntry(i)
    ELSE SummaryEntry(i) \o <<" | ">> \o SummaryFrom(i + 1)

\* C9 as stated: online with no streams, the text is the " | "-joined list
\* of the entries and nothing else, also when there are no entries.
C9_SummaryIsJoinedEntries ==
    (presence.server = "online" /\ PresenceStreams = 0)
    => presence.text = SummaryFrom(1)

\* C9 amended: online with no streams, the text is the " | "-joined list of
\* the "<count> <display name> <emoji>" entries of the presence-configured
\* libraries present in the stats, in configuration order, when there is at
\* least one; when there is none it is "No streams or sections configured".
C9_SummaryOrFixedText ==
    (presence.server = "online" /\ PresenceStreams = 0)
    => presence.text = IF Len(PresentSections) > 0 THEN SummaryFrom(1)
                       ELSE <<"No streams or sections configured">>

\* two of three configured libraries are in the stats
C9_Witness ==
    /\ presence.server = "online" /\ PresenceStreams = 0
    /\ Len(config.presence_sections) = 3
    /\ presence.text = <<"1", ".", "2", "3", "4", " ", "Films", " ", "film",
                         " | ", "2", " ", "Series", " ", "tv">>

\* ---------------------------------------------------------------------- C10
\* C10: with m the whole minutes since the connection start, the uptime is
\* HH:MM with HH = m div 60 and MM = m mod 60, two digits each, while
\* m div 60 <= 99; "99+ Hours" when m div 60 > 99; "Offline" without a start.
C10_UptimeFormat ==
    res # <<>> =>
        LET m == (now - plex_start_time) \div 60
            text == res[1]
        IN  /\ plex_start_time = None => text = <<"Offline">>
            /\ (plex_start_time # None /\ m \div 60 <= 99)
               => /\ Len(text) = 5
                  /\ text[3] = ":"
                  /\ ParseNat(SubSeq(text, 1, 2)) = m \div 60
                  /\ ParseNat(SubSeq(text, 4, 5)) = m % 60
            /\ (plex_start_time # None /\ m \div 60 > 99)
               => text = <<"99+ Hours">>

\* a start 100 hours back
C10_Witness ==
    /\ plex_start_time # None
    /\ now - plex_start_time = 360000
    /\ res = << <<"99+ Hours">> >>

\* ---------------------------------------------------------------------- C11
\* "MM:SS" below an hour of total duration, "H:MM:SS" from an hour on
ExpectedTime(seconds, total_seconds) ==
    IF total_seconds < 3600
    THEN Pad2(seconds \div 60) \o <<":">> \o Pad2(seconds % 60)
    ELSE Digits(seconds \div 3600) \o <<":">> \o Pad2((seconds % 3600) \div 60)
         \o <<":">> \o Pad2(seconds % 60)

\* C11: for every position and duration with 0 <= position <= duration,
\* both formatters render the position and the duration as MM:SS when the
\* duration is below 3600 s and as H:MM:SS from 3600 s on, without raising,
\* and give the same strings; 0 of 0 is "00:00".
C11_TimeRendering ==
    (arg.pos <= arg.dur) =>
        /\ res.plex # <<>>
           => /\ ~res.plex[1].raised
              /\ res.plex[1].current = ExpectedTime(arg.pos, arg.dur)
              /\ res.plex[1].total = ExpectedTime(arg.dur, arg.dur)
        /\ res.jellyfin # <<>>
           => /\ ~res.jellyfin[1].raised
              /\ res.jellyfin[1].current = ExpectedTime(arg.pos, arg.dur)
              /\ res.jellyfin[1].total = ExpectedTime(arg.dur, arg.dur)
        /\ (res.plex # <<>> /\ res.jellyfin # <<>>)
           => res.plex[1] = res.jellyfin[1]

\* ---------------------------------------------------------------------- C12
\* the series name cut at its first ":" or "-", blanks stripped
ExpectedSeries(c) == IF c.series[1] = "L" THEN <<"L", "o", "s", "t">> ELSE c.series

\* C12: for the same content, with any of its fields absent, the Plex and
\* the Jellyfin title function return the same string; with every field
\* present it is "<series> - S01E12" for the episode and "Up (2009)" for
\* the movie.
C12_SameTitleBothSources ==
    /\ (res.plex # <<>> /\ res.jellyfin # <<>>)
       => /\ ~res.plex[1].raised
          /\ ~res.jellyfin[1].raised
          /\ res.plex[1].text = res.jellyfin[1].text
    /\ (arg.absent = {} /\ arg.type = "episode")
       => \A r \in Range(res.plex) \cup Range(res.jellyfin) :
             r.text = ExpectedSeries(arg) \o <<" - ", "S", "0", "1", "E", "1", "2">>
    /\ (arg.absent = {"series", "season", "episode"} /\ arg.type = "movie")
       => \A r \in Range(res.plex) \cup Range(res.jellyfin) :
             r.text = <<"Up", " (", "2", "0", "0", "9", ")">>

\* ---------------------------------------------------------------------- C13
\* C13: for every state of the message-id file, _load_message_id returns
\* an integer id or None and does not raise; it returns an integer only
\* when the file holds an integer-convertible message_id.
C13_LoadNeverRaises ==
    res # <<>> =>
        /\ ~res[1].raised
        /\ res[1].value # None => file.kind \in {"id", "numeric_text"}
        /\ file.kind \in {"absent", "malformed"} => res[1].value = None

\* ---------------------------------------------------------------------- C14
\* C14: in the loaded configuration every setting of every group is there,
\* with the file's value when the file gives it and the built-in default
\* when it does not, also when the file gives only some keys of a group; a
\* missing or malformed file yields exactly the defaults.
C14_MergeAtEveryLevel ==
    res # <<>> =>
        /\ arg.kind # "object" => res[1] = DefaultSettings
        /\ arg.kind = "object" =>
              \A g \in SettingGroups : \A k \in GroupKeys(g) :
                 /\ k \in DOMAIN res[1][g]
                 /\ res[1][g][k] = IF g \in DOMAIN arg.data /\ k \in DOMAIN arg.data[g]
                                   THEN <<"file", g, k>> ELSE <<"default", g, k>>

\* ------------------------------------------------------------------- C15
\* the total of a list in half KB, entry by entry: value for KB, value * 1024
\* for MB, value * 1024 * 1024 for GB, nothing for 'Unknown' and other units
RECURSIVE SumHalfKB(_, _)
SumHalfKB(list, n) ==
    IF n = 0 THEN 0
    ELSE SumHalfKB(list, n - 1)
         + (LET s == list[n].size
                unit == s[Len(s)]
                value == FloatHalves(SubSeq(s, 1, Len(s) - 2))
            IN  CASE s = <<"Unknown">> -> 0
                  [] unit = "KB" -> value
                  [] unit = "MB" -> 1024 * value
                  [] unit = "GB" -> 1024 * 1024 * value
                  [] OTHER -> 0)

\* the total rendered with two decimals: in GB iff it is at least 1024 MB
RenderedTotal(halfKB) ==
    IF halfKB >= 1024 * 2048 THEN Fixed2(halfKB, 2048 * 1024) \o <<" GB">>
    ELSE Fixed2(halfKB, 2048) \o <<" MB">>

ExampleDownloads ==
    <<[size |-> <<"5", "1", "2", " ", "KB">>], [size |-> <<"1", " ", "MB">>],
      [size |-> <<"2", " ", "GB">>]>>

\* C15: _calculate_total_size sums value/1024 for KB, value for MB and
\* value*1024 for GB entries, skipping 'Unknown' and counting other units as
\* 0, and renders the sum in GB with two decimals iff it is >= 1024 MB, else
\* in MB (512 KB + 1 MB + 2 GB gives '2.00 GB'); the dashboard takes this
\* total over the at most 4 displayed downloads while its header counts all.
C15_TotalSize ==
    /\ res.total # <<>> =>
          /\ res.total[1] = RenderedTotal(SumHalfKB(arg, Len(arg)))
          /\ arg = ExampleDownloads =>
                res.total[1] = <<"2", ".", "0", "0", " GB">>
    /\ (res.fields # <<>> /\ arg # <<>>) =>
          LET shown == IF Len(arg) < 4 THEN Len(arg) ELSE 4
          IN  /\ res.fields[1].shown = SubSeq(arg, 1, shown)
              /\ res.fields[1].total = RenderedTotal(SumHalfKB(arg, shown))
              /\ SubSeq(res.fields[1].header, 1, Len(Digits(Len(arg))))
                   = Digits(Len(arg))

\* five downloads reported: four shown and totalled, the fifth (2 GB) only
\* counted in the header; and a list totalling exactly 1024 MB
C15_Witness ==
    /\ res.total # <<>> /\ res.fields # <<>>
    /\ Len(arg) = 5
    /\ arg[5].size = <<"2", " ", "GB">>
    /\ arg[1].size = <<"1", "0", "2", "3", ".", "5", " ", "MB">>
    /\ arg[2].size = <<"5", "1", "2", " ", "KB">>
    /\ arg[3].size = <<"Unknown">>
    /\ arg[4].size = <<"3", " ", "TB">>
    /\ res.fields[1].total = <<"1", ".", "0", "0", " GB">>
    /\ res.total[1] = <<"3", ".", "0", "0", " GB">>

\* ------------------------------------------------------------------- C16
\* the elapsed days, hours (0..23) and minutes (0..59) of the argument
ElapsedUnits ==
    <<[value |-> arg.time_diff.days, unit |-> "day"],
      [value |-> arg.time_diff.seconds \div 3600, unit |-> "hour"],
      [value |-> (arg.time_diff.seconds \div 60) % 60, unit |-> "minute"]>>

\* the units from the i-th on, each singular iff its value is 1, separated
\* by ", "
RECURSIVE UnitsFrom(_)
UnitsFrom(i) ==
    Digits(ElapsedUnits[i].value)
    \o <<" ", ElapsedUnits[i].unit>>
    \o (IF ElapsedUnits[i].value = 1 THEN <<>> ELSE <<"s">>)
    \o (IF i = 3 THEN <<>> ELSE <<", ">> \o UnitsFrom(i + 1))

\* C16: the offline-duration phrase starts at the largest non-zero unit of
\* (days, hours, minutes) and shows no unit larger than it, each shown unit
\* is singular iff its value is 1, the phrase ends in ' ago', and it is
\* 'Just now' iff days, hours and minutes are all 0.
C16_OfflinePhrase ==
    (res # <<>> /\ arg.offline_since # None) =>
        LET nonzero == {i \in 1..3 : ElapsedUnits[i].value # 0}
        IN  /\ res[1] = <<"Just now">> <=> nonzero = {}
            /\ nonzero # {} =>
                  LET first == CHOOSE i \in nonzero : \A j \in nonzero : i <= j
                  IN  res[1] = UnitsFrom(first) \o <<" ago">>
            /\ (arg.time_diff.days = 0 /\ arg.time_diff.seconds = 2 * 3600 + 15 * 60) =>
                  res[1] = <<"2", " ", "hour", "s", ", ", "1", "5", " ", "minute",
                             "s", " ago">>

\* an outage of 1 hour and 0 minutes: the days are omitted, the hour is
\* singular and the zero minutes are still shown
C16_Witness ==
    /\ res = << <<"1", " ", "hour", ", ", "0", " ", "minute", "s", " ago">> >>
    /\ arg.offline_since # None
    /\ arg.time_diff.days = 0
    /\ arg.time_diff.seconds = 3659

\* ------------------------------------------------------------------- C18
\* floor(percent / 10) of the argument: percent is 0 when the duration is 0
\* or absent or the position absent
ExpectedTenths ==
    IF arg.absent # {} \/ arg.dur = 0 THEN 0 ELSE (arg.pos * 10) \div arg.dur

\* d is the paused glyph for a paused session, and otherwise a bar of exactly
\* 10 segments, floor(percent / 10) filled ones followed by empty ones
ProgressShape(d) ==
    IF arg.paused THEN d.kind = "paused"
    ELSE /\ d.kind = "bar"
         /\ Len(d.bar) = 10
         /\ \E filled \in 0..10 :
               /\ filled = ExpectedTenths
               /\ \A i \in 1..10 :
                     d.bar[i] = IF i <= filled THEN "filled" ELSE "empty"

\* C18: for every non-paused session of either source and every position and
\* duration (duration 0 or absent, position beyond the duration included)
\* the progress bar has exactly 10 segments, floor(percent/10) filled then
\* the rest empty, with 0 <= filled <= 10; a paused session shows the paused
\* glyph instead.
C18_BarShape ==
    /\ res.plex # <<>> => ProgressShape(res.plex[1])
    /\ res.jellyfin # <<>> => ProgressShape(res.jellyfin[1])

\* ------------------------------------------------------------------- C19
\* the step is a get_server_info call returning (the clock stands still and
\* the call observed last is a get_server_info)
ServerInfoReturned == call'.op = "get_server_info" /\ now' = now

\* the connect of a get_server_info call leaves the start unknown when it
\* fails and known when it succeeds, where it was if it was known before
C19_ConnectSetsStart ==
    [][ServerInfoReturned =>
          /\ ~call'.connOk => plex_start_time' = None
          /\ call'.connOk =>
                /\ plex_start_time' # None
                /\ plex_start_time # None => plex_start_time' = plex_start_time]_vars

\* C19: the recorded start is unknown after every failed connect, known
\* after every successful connect and not moved by a successful connect that
\* follows another; consequently whenever get_server_info returns an offline
\* snapshot the recorded start is unknown, and the uptime of an online
\* snapshot that follows an offline one starts again from zero.
C19_StartLifecycle ==
    [][ServerInfoReturned =>
          /\ ~call'.connOk => plex_start_time' = None
          /\ call'.connOk =>
                /\ plex_start_time' # None
                /\ plex_start_time # None => plex_start_time' = plex_start_time
          /\ info'.status = "offline" => plex_start_time' = None
          /\ (info.status = "offline" /\ info'.status = "online") =>
                info'.uptime = calculate_uptime(now, now)]_vars

\* ------------------------------------------------------------------- C17
\* the cache is the empty map it starts with, never refreshed, or the
\* complete map of some answer of the server, refreshed at a time gone by
CacheIsWhole ==
    \/ library_cache = <<>> /\ last_library_update = None
    \/ /\ \E srv \in ServerLibraries : library_cache = BuildStats(srv, config)
       /\ last_library_update \in 1..now

\* the cache and its clock change only together, to a complete map and the
\* time of the step that built it
CacheStep ==
    (library_cache' # library_cache \/ last_library_update' # last_library_update)
        => /\ \E srv \in ServerLibraries : library_cache' = BuildStats(srv, config)
           /\ last_library_update' = now

\* a step of the presence tick leaves the message id and its file alone
PresenceStep ==
    ptask' # ptask => /\ dashboard_message_id' = dashboard_message_id
                      /\ file' = file

\* while a tick is suspended after its status read, the steps of the other
\* timer leave its snapshot alone, and the presence it then sets is made of
\* the snapshot it read
SnapshotStep ==
    /\ (ptask.pc = "jellyfin" /\ dtask' # dtask) => ptask' = ptask
    /\ (dtask.pc = "jellyfin" /\ ptask' # ptask) => dtask' = dtask
    /\ (dtask.pc \in {"fetch", "edit", "send"} /\ ptask' # ptask) => dtask' = dtask
    /\ (ptask.pc = "jellyfin" /\ presence' # presence) =>
          /\ presence'.server = ptask.info.status
          /\ presence'.library_stats = ptask.info.library_stats
          /\ presence'.plex_streams = Len(ptask.info.active_users)

\* C17: under every interleaving of update_status and update_dashboard at
\* their awaits, the library cache is always the initial empty map or the
\* complete result of one successful refresh, with the staleness clock at
\* the time of that refresh; a presence tick never changes the dashboard
\* message id or its file; and a tick of one timer running between the
\* other's status read and its output does not change the snapshot rendered.
C17_TimersDoNotInterfere ==
    /\ []CacheIsWhole
    /\ [][CacheStep /\ PresenceStep /\ SnapshotStep]_vars

\* both ticks are suspended at their Jellyfin request; the dashboard tick
\* read the status after the presence tick and refreshed the cache, which
\* now differs from the map in the presence tick's snapshot
C17_Witness ==
    /\ ptask.pc = "jellyfin" /\ dtask.pc = "jellyfin"
    /\ library_cache # <<>>
    /\ dtask.info.library_stats = library_cache
    /\ ptask.info.library_stats # library_cache
    /\ ptask.info.status = "online"

====
